---- MODULE Spec2Model ----
(***************************************************************************)
(* FastForm: the chat-turn orchestration (app/ai.py), the thread assembly  *)
(* and persistence around it (app/services.py) and the chat endpoints      *)
(* (app/api.py), as a state machine.  A request worker p runs one chat     *)
(* turn at a time; every database read, every commit and every start and   *)
(* return of a language-model call is one step.                            *)
(***************************************************************************)
EXTENDS Integers, Sequences, FiniteSets, TLC

VARIABLES
    users,        \* the User table: committed rows, in insertion order
    issued,       \* how many ids the Annotation table has handed out
    store,        \* the Message table: committed rows, in insertion (id) order
    annotations,  \* the Annotation table: committed rows, in insertion order
    clock,        \* the wall clock Message.timestamp is read from
    started,      \* number of chat turns accepted so far
    turn,         \* turn[p]: the chat request worker p is serving, and its locals
    validation    \* a candidate document and what validating it as a Form gave

vars == <<users, issued, store, annotations, clock, started, turn, validation>>

(***************************************************************************)
(* Bounds of the model.                                                    *)
(***************************************************************************)
MaxTurns == 2
MaxAnnotations == 1
MaxBBox == 3
MaxCells == 2
MaxRows == 2

Procs == {"p1", "p2"}
Threads == {"t1", "t2"}
Users == {"u1"}
UserTexts == {"hello"}

(***************************************************************************)
(* Text values.  A Python str is a tagged value: a plain string, the JSON  *)
(* text of a document, or an instruction template with its parameter.      *)
(***************************************************************************)
Txt(s) == [k |-> "str", s |-> s]
JsonText(doc) == [k |-> "json", doc |-> doc]

\* ai.py: SYSTEM_PROMPT
SYSTEM_PROMPT == Txt("SYSTEM_PROMPT")

\* ai.py: SYSTEM_PROMPT_FILL.format(form_structure=...)
SYSTEM_PROMPT_FILL(form_structure) ==
    [k |-> "SYSTEM_PROMPT_FILL", form_structure |-> form_structure]

NoStructure == Txt("No structure provided")

(***************************************************************************)
(* Optional integers (int | None).                                         *)
(***************************************************************************)
None == [some |-> FALSE]
Some(n) == [some |-> TRUE, v |-> n]

\* Python truthiness of an int | None: None and 0 are falsy.
Truthy(opt) == opt.some /\ opt.v # 0

(***************************************************************************)
(* guidance ContentMessage: a role and a list of typed content parts.      *)
(***************************************************************************)
TextPart(text) == [type |-> "text", text |-> text]

ContentMessage(role, content) == [role |-> role, content |-> content]

\* ContentMessage.model_dump_json / json.dumps of the message dict: the JSON
\* text stored in Message.content.
model_dump_json(cm) == JsonText(cm)

\* ContentMessage.model_validate_json / json.loads of Message.content.
model_validate_json(text) == text.doc

(***************************************************************************)
(* Attachments: a page is a bytes value, a sequence of one-character       *)
(* strings.                                                                *)
(***************************************************************************)
\* The base64 alphabet; the padding character is "=".
B64Alphabet ==
    {"A", "B", "C", "D", "E", "F", "G", "H", "I", "J", "K", "L", "M",
     "N", "O", "P", "Q", "R", "S", "T", "U", "V", "W", "X", "Y", "Z",
     "a", "b", "c", "d", "e", "f", "g", "h", "i", "j", "k", "l", "m",
     "n", "o", "p", "q", "r", "s", "t", "u", "v", "w", "x", "y", "z",
     "0", "1", "2", "3", "4", "5", "6", "7", "8", "9", "+", "/"}

\* The number of padding characters that end b.
RECURSIVE TrailingPad(_)
TrailingPad(b) ==
    IF b = <<>> \/ b[Len(b)] # "=" THEN 0
    ELSE 1 + TrailingPad(SubSeq(b, 1, Len(b) - 1))

\* base64.b64decode(b, validate=True) returns: only alphabet characters,
\* then at most two padding characters, completing the last group of four.
b64decode_validates(b) ==
    LET pad == TrailingPad(b)
        data == SubSeq(b, 1, Len(b) - pad)
    IN  /\ \A i \in 1..Len(data) : data[i] \in B64Alphabet
        /\ pad <= 2
        /\ Len(b) % 4 = 0
        /\ pad > 0 => Len(data) > 0

\* Every page counts as an image.
is_valid_any(b) == TRUE

\* MessageService._is_valid_base64_image
is_valid_base64_image(b) == b64decode_validates(b)

\* form_pages: list[bytes] | None
NoPages == [some |-> FALSE]
Pages(list) == [some |-> TRUE, list |-> list]

\* f"data:image/png;base64,{page.decode('utf-8')}"
ImageUrlPart(page) ==
    [type |-> "image_url",
     image_url |-> [url |-> [k |-> "data_url", mime |-> "image/png", base64 |-> page]]]

\* The loop over form_pages: the parts of the pages that pass the test, in
\* the order of the list.
RECURSIVE ImageParts(_)
ImageParts(list) ==
    IF list = <<>> THEN <<>>
    ELSE (IF is_valid_base64_image(Head(list))
          THEN <<ImageUrlPart(Head(list))>> ELSE <<>>)
         \o ImageParts(Tail(list))

\* content_items of the user message.
ContentItems(content, form_pages) ==
    <<TextPart(content)>>
        \o (IF form_pages.some THEN ImageParts(form_pages.list) ELSE <<>>)

(***************************************************************************)
(* The Message table.                                                      *)
(***************************************************************************)
\* Message.timestamp is not passed by the services: the column's default
\* gives it, the clock reading when the row is constructed.
default_timestamp(reading) == reading

\* Message(content=..., thread_id=..., user_id=...) as committed: the id is
\* the next row id, the timestamp is the clock reading at construction.
Message(id, content, thread_id, user_id, timestamp) ==
    [id |-> id, content |-> content, thread_id |-> thread_id,
     user_id |-> user_id, timestamp |-> timestamp]

\* The select without its where clause: every row of the table.
SelectAll(rows, thread_id) == rows

RECURSIVE SelectWhere(_, _)
\* select(Message).where(Message.thread_id == thread_id), rows in id order.
SelectWhere(rows, thread_id) ==
    IF rows = <<>> THEN <<>>
    ELSE IF Head(rows).thread_id = thread_id
         THEN <<Head(rows)>> \o SelectWhere(Tail(rows), thread_id)
         ELSE SelectWhere(Tail(rows), thread_id)

\* The rows stay in the order the select returned them.
AsSelected(rows) == rows

RECURSIVE InsertByTimestamp(_, _)
\* One step of a stable insertion sort on timestamp: m goes after every row
\* whose timestamp is not larger.
InsertByTimestamp(sorted, m) ==
    IF sorted = <<>> THEN <<m>>
    ELSE IF Head(sorted).timestamp <= m.timestamp
         THEN <<Head(sorted)>> \o InsertByTimestamp(Tail(sorted), m)
         ELSE <<m>> \o sorted

RECURSIVE SortByTimestamp(_)
\* thread.sort(key=lambda m: m.timestamp): stable, ascending.
SortByTimestamp(rows) ==
    IF rows = <<>> THEN <<>>
    ELSE InsertByTimestamp(SortByTimestamp(SubSeq(rows, 1, Len(rows) - 1)),
                           rows[Len(rows)])

\* [f(m) for m in rows]
MapContent(rows) == [i \in 1..Len(rows) |-> model_validate_json(rows[i].content)]

(***************************************************************************)
(* The guidance model state (lm._interpreter.state): the closed messages   *)
(* and the message of the role block that is still open.  A role block is  *)
(* closed, and its message appended, when the next block is opened.        *)
(***************************************************************************)
LmState(messages, active) == [messages |-> messages, active |-> active]

NoLm == LmState(<<>>, <<>>)

\* with assistant(): lm += text
AssistantBlock(lm, text) ==
    LmState(lm.messages \o lm.active,
            <<ContentMessage("assistant", <<TextPart(text)>>)>>)

\* lm._interpreter.state.get_active_message()
get_active_message(lm) == lm.active[1]

\* Off by one: messages[-1], the block closed last.
LastClosed(lm) == lm.messages[Len(lm.messages)]

\* lm._interpreter.state.messages[-2]
SecondToLast(lm) == lm.messages[Len(lm.messages) - 1]

\* The instruction texts the orchestration writes into the transcript.
AskIntent(flow) == Txt("ask_intent_" \o flow)
AnnounceGenerate(flow) == Txt("announce_generate_" \o flow)
AnnounceCommentary(flow) == Txt("announce_commentary_" \o flow)
AnnounceConversation(flow) == Txt("announce_conversation_" \o flow)

\* What the model is asked to produce is still pending while the call runs.
Pending == Txt("")

\* class Response(Enum)
Response == {"yes", "no"}

\* What the classifier call can hand back as the selection.
Selections == Response \cup {"maybe"}

\* The free text a gen("message") call can return.
Commentaries == {Txt("commentary")}

(***************************************************************************)
(* JSON documents: what a generated structure is before validation.        *)
(***************************************************************************)
JNull == [j |-> "null"]
JInt(n) == [j |-> "int", n |-> n]
JStr(s) == [j |-> "str", s |-> s]
JBool(b) == [j |-> "bool", b |-> b]
JList(items) == [j |-> "list", items |-> items]
JObj(fields) == [j |-> "obj", fields |-> fields]

(***************************************************************************)
(* Declared types of the schema (app/fastform.py).                         *)
(***************************************************************************)
TStr == [t |-> "str"]
TInt == [t |-> "int"]
TNumber == [t |-> "number"]
TBool == [t |-> "bool"]
TNull == [t |-> "null"]
TEnum(values) == [t |-> "enum", values |-> values]
TUnion(of) == [t |-> "union", of |-> of]
TList(item, min, max) == [t |-> "list", item |-> item, min |-> min, max |-> max]
TModel(name) == [t |-> "model", name |-> name]

\* X alone
NeverNull(T) == TUnion(<<T>>)

\* X | None
Nullable(T) == TUnion(<<T, TNull>>)

\* No max_length on a list.
Unbounded == -1

AnnotationEnum ==
    {"TextField", "TextAreaField", "NumberField", "DateField", "CheckboxField",
     "RadioField", "SelectField", "FileField", "ImageField", "SignatureField",
     "EmailField", "UrlField", "PhoneField", "ListField"}

AnnotationGroupEnum == {"SectionGroup", "RepeatGroup", "WizardStep", "TableGroup"}

\* A bounding box of any length.
AnnotationFieldsAnyBBox ==
    [title |-> TStr, description |-> TStr,
     bbox |-> TList(TModel("Coordinate"), 0, Unbounded),
     element_name |-> TEnum(AnnotationEnum)]

\* A discriminator that may be any string.
AnnotationFieldsAnyName ==
    [title |-> TStr, description |-> TStr,
     bbox |-> TList(TModel("Coordinate"), 2, 2),
     element_name |-> TStr]

AnnotationFields ==
    [title |-> TStr, description |-> TStr,
     bbox |-> TList(TModel("Coordinate"), 2, 2),
     element_name |-> TEnum(AnnotationEnum)]

\* A group that may hold no annotation.
AnnotationGroupFieldsMayBeEmpty ==
    [title |-> TStr, description |-> TStr,
     annotations |-> TList(TModel("Annotation"), 0, Unbounded),
     element_name |-> TEnum(AnnotationGroupEnum)]

AnnotationGroupFields ==
    [title |-> TStr, description |-> TStr,
     annotations |-> TList(TModel("Annotation"), 1, Unbounded),
     element_name |-> TEnum(AnnotationGroupEnum)]

\* The members of the unions of TableGroup.rows and Form.elements, in the
\* declared order.
\* A cell may be a table as well.
CellVariantsWithTable ==
    <<TModel("TextField"), TModel("TextAreaField"), TModel("NumberField"),
      TModel("DateField"), TModel("CheckboxField"), TModel("RadioField"),
      TModel("SelectField"), TModel("FileField"), TModel("ImageField"),
      TModel("SignatureField"), TModel("EmailField"), TModel("UrlField"),
      TModel("PhoneField"), TModel("ListField"),
      TModel("SectionGroup"), TModel("RepeatGroup"), TModel("WizardStep"),
      TModel("TableGroup")>>

CellVariants ==
    <<TModel("TextField"), TModel("TextAreaField"), TModel("NumberField"),
      TModel("DateField"), TModel("CheckboxField"), TModel("RadioField"),
      TModel("SelectField"), TModel("FileField"), TModel("ImageField"),
      TModel("SignatureField"), TModel("EmailField"), TModel("UrlField"),
      TModel("PhoneField"), TModel("ListField"),
      TModel("SectionGroup"), TModel("RepeatGroup"), TModel("WizardStep")>>

ElementVariants == CellVariants \o <<TModel("TableGroup")>>

\* The declared fields of each model class; a subclass adds to its base.
Fields(name) ==
    CASE name = "Coordinate" -> [x |-> Nullable(TInt), y |-> Nullable(TInt)]
      [] name = "Annotation" -> AnnotationFields
      [] name \in {"TextField", "DateField", "SignatureField", "EmailField",
                   "UrlField", "PhoneField"} ->
            AnnotationFields @@ [value |-> Nullable(TStr)]
      [] name = "TextAreaField" ->
            AnnotationFields @@
            [value |-> Nullable(TStr), max_length |-> Nullable(TInt)]
      [] name = "NumberField" ->
            AnnotationFields @@
            [value |-> Nullable(TNumber), min_value |-> Nullable(TNumber),
             max_value |-> Nullable(TNumber)]
      [] name = "CheckboxField" ->
            AnnotationFields @@ [value |-> Nullable(TBool)]
      [] name = "RadioField" ->
            AnnotationFields @@
            [options |-> TList(TStr, 0, Unbounded), value |-> Nullable(TStr)]
      [] name = "SelectOption" ->
            [label |-> TStr, value |-> TUnion(<<TStr, TNumber>>)]
      [] name = "SelectField" ->
            AnnotationFields @@
            [options |-> TList(TModel("SelectOption"), 0, Unbounded),
             multi |-> TBool,
             value |-> TUnion(<<TList(TModel("SelectOption"), 0, Unbounded),
                                TModel("SelectOption"), TNull>>)]
      [] name \in {"FileField", "ImageField"} ->
            AnnotationFields @@
            [allowed |-> TList(TStr, 0, Unbounded), max_mb |-> Nullable(TInt),
             value |-> Nullable(TStr)]
      [] name = "ListField" ->
            AnnotationFields @@
            [items |-> Nullable(TList(TModel("Annotation"), 0, Unbounded))]
      [] name = "AnnotationGroup" -> AnnotationGroupFields
      [] name = "SectionGroup" ->
            AnnotationGroupFields @@ [collapsible |-> TBool, collapsed |-> TBool]
      [] name = "RepeatGroup" ->
            AnnotationGroupFields @@ [min_val |-> TInt, max_val |-> Nullable(TInt)]
      [] name = "WizardStep" ->
            AnnotationGroupFields @@ [order |-> Nullable(TInt), optional |-> TBool]
      [] name = "TableGroup" ->
            AnnotationGroupFields @@
            [columns |-> TList(TStr, 0, Unbounded),
             rows |-> TList(TList(TUnion(CellVariants), 0, Unbounded), 0, Unbounded)]
      [] name = "Form" ->
            [title |-> TStr, description |-> TStr,
             elements |-> TList(TUnion(ElementVariants), 0, Unbounded)]

(***************************************************************************)
(* The JSON schema of the declared types: what json(schema=...) constrains *)
(* generation to.  The validators written as functions are no part of it.  *)
(***************************************************************************)
RECURSIVE Conforms(_, _)
\* doc is an instance of the declared type T: every declared field present
\* and of its type, no field that is not declared (extra="forbid"), list
\* lengths within min_length/max_length, enum members only.
Conforms(T, doc) ==
    CASE T.t = "str" -> doc.j = "str"
      [] T.t = "int" -> doc.j = "int"
      [] T.t = "number" -> doc.j = "int"
      [] T.t = "bool" -> doc.j = "bool"
      [] T.t = "null" -> doc.j = "null"
      [] T.t = "enum" -> doc.j = "str" /\ doc.s \in T.values
      [] T.t = "union" ->
            \E i \in 1..Len(T.of) : Conforms(T.of[i], doc)
      [] T.t = "list" ->
            /\ doc.j = "list"
            /\ Len(doc.items) >= T.min
            /\ (T.max # Unbounded => Len(doc.items) <= T.max)
            /\ \A i \in 1..Len(doc.items) : Conforms(T.item, doc.items[i])
      [] T.t = "model" ->
            /\ doc.j = "obj"
            /\ DOMAIN doc.fields = DOMAIN Fields(T.name)
            /\ \A f \in DOMAIN doc.fields :
                   Conforms(Fields(T.name)[f], doc.fields[f])

\* doc satisfies the JSON schema json(schema=Form) constrains generation to.
SchemaConforms(doc) == Conforms(TModel("Form"), doc)

(***************************************************************************)
(* Validation (pydantic): Form.model_validate(doc).  It returns an         *)
(* instance, or raises a ValidationError that lists error lines, or lets   *)
(* through the exception a validator function raised that is neither a    *)
(* ValueError nor an AssertionError.                                       *)
(***************************************************************************)
\* One line of a ValidationError: where, and what kind.
ErrorLine(loc, type) == [loc |-> loc, type |-> type]

\* A validated model instance, as a mode="after" model validator gets it.
Instance(name, fields) == [j |-> "instance", name |-> name, fields |-> fields]

\* TableGroup.match_columns, a field validator of rows: data holds the
\* fields validated before rows.
match_columns(rows, data) ==
    LET columns == IF "columns" \in DOMAIN data THEN data.columns.items ELSE <<>>
    IN  IF \E i \in 1..Len(rows.items) : Len(rows.items[i].items) # Len(columns)
        THEN "ValueError"
        ELSE "pass"

\* SelectField.check_select, a mode="after" model validator written with
\* the signature (cls, values): values is the validated instance, not a
\* dict, and values.get raises AttributeError before any condition is read.
check_select(values) ==
    IF values.j # "obj" THEN "AttributeError"
    ELSE LET multi == values.fields.multi.b
             val == values.fields.value
         IN  IF multi /\ val.j # "null" /\ val.j # "list" THEN "ValueError"
             ELSE IF ~multi /\ val.j = "list" THEN "ValueError"
             ELSE "pass"

\* The mode="after" model validators of a class, run on the instance once
\* all its fields validate.
ModelValidator(name, fields) ==
    IF name = "SelectField" THEN check_select(Instance(name, fields)) ELSE "pass"

\* The mode="after" field validators of a class.
FieldValidator(name, field, value, data) ==
    IF name = "TableGroup" /\ field = "rows" THEN match_columns(value, data)
    ELSE "pass"

\* The name of a union member in the location of an error line.
MemberLabel(T) ==
    CASE T.t = "model" -> T.name
      [] T.t = "list" -> "list[" \o (IF T.item.t = "model" THEN T.item.name ELSE T.item.t) \o "]"
      [] T.t = "null" -> "none"
      [] OTHER -> T.t

\* Undeclared attributes pass unnoticed.
ExtraIgnored(declared, doc, loc) == {}

\* model_config = ConfigDict(extra="forbid"): one error line for every
\* attribute of doc the class does not declare.
ExtraForbidden(declared, doc, loc) ==
    {ErrorLine(Append(loc, f), "extra_forbidden") :
        f \in DOMAIN doc.fields \ DOMAIN declared}

RECURSIVE Errors(_, _, _)
\* The error lines validating doc as the declared type T gives, doc being
\* found at loc; none when doc validates.
Errors(T, doc, loc) ==
    CASE T.t \in {"str", "int", "number", "bool", "null"} ->
            IF Conforms(T, doc) THEN {} ELSE {ErrorLine(loc, T.t \o "_type")}
      [] T.t = "enum" ->
            IF Conforms(T, doc) THEN {} ELSE {ErrorLine(loc, "enum")}
      [] T.t = "union" ->
            IF \E i \in 1..Len(T.of) : Errors(T.of[i], doc, loc) = {} THEN {}
            ELSE UNION {Errors(T.of[i], doc, Append(loc, MemberLabel(T.of[i]))) :
                            i \in 1..Len(T.of)}
      [] T.t = "list" ->
            IF doc.j # "list" THEN {ErrorLine(loc, "list_type")}
            ELSE IF T.max # Unbounded /\ Len(doc.items) > T.max
                 THEN {ErrorLine(loc, "too_long")}
            ELSE LET inner == UNION {Errors(T.item, doc.items[i],
                                            Append(loc, ToString(i - 1))) :
                                        i \in 1..Len(doc.items)}
                 IN  IF inner # {} THEN inner
                     ELSE IF Len(doc.items) < T.min THEN {ErrorLine(loc, "too_short")}
                     ELSE {}
      [] T.t = "model" ->
            IF doc.j # "obj" THEN {ErrorLine(loc, "model_type")}
            ELSE LET declared == Fields(T.name)
                     given == DOMAIN doc.fields \cap DOMAIN declared
                     valid == {f \in given :
                                  Errors(declared[f], doc.fields[f], <<>>) = {}}
                     OfField(f) ==
                         IF f \notin valid
                         THEN Errors(declared[f], doc.fields[f], Append(loc, f))
                         ELSE IF FieldValidator(T.name, f, doc.fields[f],
                                     [g \in valid \ {f} |-> doc.fields[g]])
                                     = "ValueError"
                              THEN {ErrorLine(Append(loc, f), "value_error")}
                              ELSE {}
                     lines ==
                         {ErrorLine(Append(loc, f), "missing") :
                              f \in DOMAIN declared \ DOMAIN doc.fields}
                         \cup ExtraForbidden(declared, doc, loc)
                         \cup UNION {OfField(f) : f \in given}
                 IN  IF lines = {}
                        /\ ModelValidator(T.name, doc.fields) = "ValueError"
                     THEN {ErrorLine(loc, "value_error")}
                     ELSE lines

RECURSIVE Raises(_, _)
\* Validating doc as T runs into a validator function that raises an
\* exception validation does not turn into an error line.
Raises(T, doc) ==
    CASE T.t = "union" -> \E i \in 1..Len(T.of) : Raises(T.of[i], doc)
      [] T.t = "list" ->
            /\ doc.j = "list"
            /\ \E i \in 1..Len(doc.items) : Raises(T.item, doc.items[i])
      [] T.t = "model" ->
            /\ doc.j = "obj"
            /\ \/ \E f \in DOMAIN doc.fields \cap DOMAIN Fields(T.name) :
                      Raises(Fields(T.name)[f], doc.fields[f])
               \/ /\ DOMAIN doc.fields = DOMAIN Fields(T.name)
                  /\ \A f \in DOMAIN doc.fields :
                        Errors(Fields(T.name)[f], doc.fields[f], <<>>) = {}
                  /\ ModelValidator(T.name, doc.fields) = "AttributeError"
      [] OTHER -> FALSE

RECURSIVE Construct(_, _)
\* What validating doc as T returns when doc validates: an instance of the
\* class for a model, and for a union what its first member that takes doc
\* returns (the members that take a document take it equally well: they
\* declare the same attributes, and none is optional).
Construct(T, doc) ==
    CASE T.t = "union" ->
            LET i == CHOOSE i \in 1..Len(T.of) :
                        /\ Errors(T.of[i], doc, <<>>) = {}
                        /\ \A k \in 1..(i - 1) : Errors(T.of[k], doc, <<>>) # {}
            IN  Construct(T.of[i], doc)
      [] T.t = "list" ->
            JList([i \in 1..Len(doc.items) |-> Construct(T.item, doc.items[i])])
      [] T.t = "model" ->
            Instance(T.name, [f \in DOMAIN doc.fields \cap DOMAIN Fields(T.name) |->
                                 Construct(Fields(T.name)[f], doc.fields[f])])
      [] OTHER -> doc

RECURSIVE model_dump(_)
\* instance.model_dump(mode="json"): the attributes, without the classes.
model_dump(value) ==
    CASE value.j = "instance" ->
            JObj([f \in DOMAIN value.fields |-> model_dump(value.fields[f])])
      [] value.j = "list" ->
            JList([i \in 1..Len(value.items) |-> model_dump(value.items[i])])
      [] OTHER -> value

\* Form.model_validate(doc)
model_validate(doc) ==
    IF Raises(TModel("Form"), doc) THEN [kind |-> "AttributeError"]
    ELSE LET lines == Errors(TModel("Form"), doc, <<>>)
         IN  IF lines = {}
             THEN [kind |-> "ok", instance |-> Construct(TModel("Form"), doc)]
             ELSE [kind |-> "ValidationError", errors |-> lines]

\* Form.model_validate(doc) returns an instance.
Validates(doc) == model_validate(doc).kind = "ok"

(***************************************************************************)
(* Sample documents: the structures the generator may hand back and the    *)
(* structures callers store as annotations.                                *)
(***************************************************************************)
Coord(x, y) == JObj([x |-> x, y |-> y])

NullBBox == JList(<<Coord(JNull, JNull), Coord(JNull, JNull)>>)

TextFieldDoc(title, value) ==
    JObj([title |-> JStr(title), description |-> JStr(""), bbox |-> NullBBox,
          element_name |-> JStr("TextField"), value |-> value])

AnnotationDoc(title) ==
    JObj([title |-> JStr(title), description |-> JStr(""), bbox |-> NullBBox,
          element_name |-> JStr("TextField")])

FormDoc(title, elements) ==
    JObj([title |-> JStr(title), description |-> JStr(""),
          elements |-> JList(elements)])

\* "create a contact form with name and email"
ContactForm ==
    FormDoc("Contact", <<TextFieldDoc("Name", JNull), TextFieldDoc("Email", JNull)>>)

\* The structure the annotation test stores: "Full Name", "Email" and a
\* "Message" named a TextAreaField that carries a value and no max_length.
SampleForm ==
    FormDoc("Sample Contact Form",
        <<TextFieldDoc("Full Name", JNull), TextFieldDoc("Email", JNull),
          [TextFieldDoc("Message", JNull) EXCEPT
              !.fields.element_name = JStr("TextAreaField")]>>)

\* A stored structure with one TextField "Name", and the same form filled in.
NameForm == FormDoc("Person", <<TextFieldDoc("Name", JNull)>>)
NameFormAda == FormDoc("Person", <<TextFieldDoc("Name", JStr("Ada"))>>)

\* A table of two columns whose only row has one cell.
ShortRowForm ==
    FormDoc("Table",
        <<JObj([title |-> JStr("T"), description |-> JStr(""),
                annotations |-> JList(<<AnnotationDoc("A")>>),
                element_name |-> JStr("TableGroup"),
                columns |-> JList(<<JStr("a"), JStr("b")>>),
                rows |-> JList(<<JList(<<TextFieldDoc("A", JNull)>>)>>)])>>)

\* A form whose field is placed on the page: its bounding box holds numbers.
PlacedForm ==
    FormDoc("Person",
        <<[TextFieldDoc("Name", JNull) EXCEPT
              !.fields.bbox = JList(<<Coord(JInt(0), JInt(0)), Coord(JInt(1), JInt(1))>>)]>>)

\* A form carrying an attribute the schema does not declare.
ExtraAttributeForm ==
    JObj([title |-> JStr("Contact"), description |-> JStr(""),
          elements |-> JList(<<>>), author |-> JStr("x")])

(***************************************************************************)
(* Candidate documents for validation: forms of one element.               *)
(***************************************************************************)
\* A bounding box of n corners.
BBoxOf(n) == JList([i \in 1..n |-> Coord(JNull, JNull)])

OptionDoc(label) == JObj([label |-> JStr(label), value |-> JStr(label)])

\* What a leaf class declares besides the attributes of Annotation, each at
\* a value of its type.
LeafAttributes(kind) ==
    CASE kind \in {"TextField", "DateField", "SignatureField", "EmailField",
                   "UrlField", "PhoneField", "CheckboxField"} -> [value |-> JNull]
      [] kind = "TextAreaField" -> [value |-> JNull, max_length |-> JNull]
      [] kind = "NumberField" ->
            [value |-> JNull, min_value |-> JNull, max_value |-> JNull]
      [] kind = "RadioField" -> [options |-> JList(<<JStr("a")>>), value |-> JNull]
      [] kind = "SelectField" ->
            [options |-> JList(<<OptionDoc("a")>>), multi |-> JBool(FALSE),
             value |-> JNull]
      [] kind \in {"FileField", "ImageField"} ->
            [allowed |-> JList(<<>>), max_mb |-> JNull, value |-> JNull]
      [] kind = "ListField" -> [items |-> JNull]

\* A leaf of the class with a bounding box of n corners.
LeafDoc(kind, n) ==
    JObj([title |-> JStr("L"), description |-> JStr(""), bbox |-> BBoxOf(n),
          element_name |-> JStr(kind)] @@ LeafAttributes(kind))

\* A table's rows: a row of n cells for every n of lens.
RowsOf(lens) ==
    JList([i \in 1..Len(lens) |->
              JList([c \in 1..lens[i] |-> TextFieldDoc("C", JNull)])])

\* What a group class declares besides the attributes of AnnotationGroup.
GroupAttributes(kind) ==
    CASE kind = "SectionGroup" ->
            [collapsible |-> JBool(TRUE), collapsed |-> JBool(FALSE)]
      [] kind = "RepeatGroup" -> [min_val |-> JInt(1), max_val |-> JNull]
      [] kind = "WizardStep" -> [order |-> JNull, optional |-> JBool(FALSE)]
      [] kind = "TableGroup" -> [columns |-> JList(<<>>), rows |-> RowsOf(<<>>)]

\* A group of the class holding m annotations.
GroupDoc(kind, m, attributes) ==
    JObj([title |-> JStr("G"), description |-> JStr(""),
          annotations |-> JList([i \in 1..m |-> AnnotationDoc("A")]),
          element_name |-> JStr(kind)] @@ attributes)

\* A table of so many columns, its rows of the lengths lens.
TableDoc(columns, lens) ==
    GroupDoc("TableGroup", 1,
             [columns |-> JList([i \in 1..columns |-> JStr("c")]),
              rows |-> RowsOf(lens)])

\* A table of one column and one row whose cell is the given element.
TableAround(cell) ==
    GroupDoc("TableGroup", 1,
             [columns |-> JList(<<JStr("c")>>), rows |-> JList(<<JList(<<cell>>)>>)])

SelectDoc(multi, value) ==
    JObj([title |-> JStr("S"), description |-> JStr(""), bbox |-> NullBBox,
          element_name |-> JStr("SelectField"),
          options |-> JList(<<OptionDoc("a"), OptionDoc("b")>>),
          multi |-> JBool(multi), value |-> value])

\* The document with one more attribute, one no class declares.
WithExtra(doc) == JObj(doc.fields @@ [extra |-> JStr("x")])

\* Forms with an undeclared attribute at one place of the tree.
ExtraCandidates ==
    {WithExtra(FormDoc("F", <<LeafDoc("TextField", 2)>>))}
    \cup {FormDoc("F", <<WithExtra(LeafDoc(kind, 2))>>) : kind \in AnnotationEnum}
    \cup {FormDoc("F", <<[LeafDoc(kind, 2) EXCEPT
                            !.fields.bbox.items[2] = WithExtra(Coord(JNull, JNull))]>>) :
            kind \in AnnotationEnum}
    \cup {FormDoc("F", <<[SelectDoc(FALSE, JNull) EXCEPT
                            !.fields.options.items[1] = WithExtra(OptionDoc("a"))]>>)}
    \cup {FormDoc("F", <<WithExtra(GroupDoc(kind, 1, GroupAttributes(kind)))>>) :
            kind \in AnnotationGroupEnum}
    \cup {FormDoc("F", <<[GroupDoc(kind, 1, GroupAttributes(kind)) EXCEPT
                            !.fields.annotations.items[1] = WithExtra(AnnotationDoc("A"))]>>) :
            kind \in AnnotationGroupEnum}
    \cup {FormDoc("F", <<TableAround(WithExtra(LeafDoc(kind, 2)))>>) :
            kind \in AnnotationEnum}

\* The element under another discriminator.
Renamed(doc, name) == [doc EXCEPT !.fields.element_name = JStr(name)]

\* Forms of one element, of the attributes of each class, under each name
\* of a class and under a name of no class.
RenamedCandidates ==
    {FormDoc("F", <<Renamed(element, name)>>) :
        element \in {LeafDoc(kind, 2) : kind \in AnnotationEnum}
                    \cup {GroupDoc(kind, 1, GroupAttributes(kind)) :
                              kind \in AnnotationGroupEnum},
        name \in AnnotationEnum \cup AnnotationGroupEnum \cup {"Other"}}

\* A ListField of the given items.
ListOf(items) == [LeafDoc("ListField", 2) EXCEPT !.fields.items = JList(items)]

\* Forms of one list: empty, of one bare Annotation, of one leaf of a class
\* with the attributes of the class, of one list of one TextField.
ListCandidates ==
    {FormDoc("F", <<ListOf(<<>>)>>), FormDoc("F", <<ListOf(<<AnnotationDoc("A")>>)>>),
     FormDoc("F", <<ListOf(<<ListOf(<<TextFieldDoc("A", JNull)>>)>>)>>)}
    \cup {FormDoc("F", <<ListOf(<<LeafDoc(kind, 2)>>)>>) : kind \in AnnotationEnum}

\* Forms of one table of one cell: a leaf of each class, or a table.
CellCandidates ==
    {FormDoc("F", <<TableAround(cell)>>) :
        cell \in {LeafDoc(kind, 2) : kind \in AnnotationEnum}
                 \cup {TableDoc(columns, <<>>) : columns \in 0..MaxCells}}

\* The document without the attribute.
Without(doc, f) == JObj([g \in DOMAIN doc.fields \ {f} |-> doc.fields[g]])

\* Forms of one leaf that lacks one attribute which takes null: its value,
\* the max_length of a TextAreaField, the x or the y of a corner of its
\* bounding box.
MissingCandidates ==
    {FormDoc("F", <<Without(LeafDoc(kind, 2), "value")>>) :
        kind \in AnnotationEnum \ {"ListField"}}
    \cup {FormDoc("F", <<Without(LeafDoc("TextAreaField", 2), "max_length")>>)}
    \cup {FormDoc("F", <<[LeafDoc(kind, 2) EXCEPT
                            !.fields.bbox.items[c] = Without(Coord(JNull, JNull), f)]>>) :
            kind \in AnnotationEnum, c \in 1..2, f \in {"x", "y"}}

\* Forms of one group whose one annotation is a leaf of a class, given with
\* the attributes of the class.
NestedCandidates ==
    {FormDoc("F", <<[GroupDoc(kind, 1, GroupAttributes(kind)) EXCEPT
                        !.fields.annotations.items[1] = LeafDoc(leaf, 2)]>>) :
        kind \in AnnotationGroupEnum, leaf \in AnnotationEnum}

LeafCandidates ==
    {FormDoc("F", <<LeafDoc(kind, n)>>) : kind \in AnnotationEnum, n \in 0..MaxBBox}

GroupCandidates ==
    {FormDoc("F", <<GroupDoc(kind, m, GroupAttributes(kind))>>) :
        kind \in AnnotationGroupEnum, m \in 0..MaxCells}
    \cup {FormDoc("F", <<TableAround(GroupDoc(kind, m, GroupAttributes(kind)))>>) :
            kind \in AnnotationGroupEnum \ {"TableGroup"}, m \in 0..MaxCells}

TableCandidates ==
    {FormDoc("F", <<TableDoc(columns, lens)>>) :
        columns \in 0..MaxCells,
        lens \in UNION {[1..r -> 0..MaxCells] : r \in 0..MaxRows}}

SelectCandidates ==
    {FormDoc("F", <<SelectDoc(multi, value)>>) :
        multi \in BOOLEAN,
        value \in {JNull, OptionDoc("a"), JList(<<>>), JList(<<OptionDoc("a")>>),
                   JList(<<OptionDoc("a"), OptionDoc("b")>>)}}

GenCandidates == {NameFormAda, ShortRowForm, PlacedForm, ExtraAttributeForm}

\* json(name=..., schema=Form): the structured-generation capability returns
\* some document of the target schema, and nothing else is known of it.
GenForms == {doc \in GenCandidates : SchemaConforms(doc)}

\* Annotation.structure is a str: the JSON text of a form.
StructureTexts == {JsonText(NameForm)}

(***************************************************************************)
(* The Annotation table.                                                   *)
(***************************************************************************)
AnnotationRow(id, structure, user_id) ==
    [id |-> id, name |-> "form", description |-> "", structure |-> structure,
     user_id |-> user_id]

\* session.get(Annotation, annotation_id): the rows with that primary key.
GetAnnotation(rows, annotation_id) ==
    SelectSeq(rows, LAMBDA a : a.id = annotation_id)

(***************************************************************************)
(* Chat requests and the locals of a turn.                                 *)
(***************************************************************************)
\* FastformBuildMessageCreate / FastfillMessageCreate
ChatRequest(content, thread_id, user_id, load_annotation_id) ==
    [content |-> content, thread_id |-> thread_id, user_id |-> user_id,
     load_annotation_id |-> load_annotation_id]

NoRequest == ChatRequest(Txt(""), "", "", None)

BuildRequests ==
    {ChatRequest(Txt(c), t, u, None) : c \in UserTexts, t \in Threads, u \in Users}

\* The ids a caller may name in load_annotation_id: none, zero, and the ids
\* rows can have (each is missing until its row is created).
FillRequests ==
    {ChatRequest(Txt(c), t, u, a) :
        c \in UserTexts, t \in Threads, u \in Users,
        a \in {None} \cup {Some(n) : n \in 0..MaxAnnotations}}

NoResult == [status |-> 0]

\* An HTTPException, or an exception no handler catches (status 500).
ErrorResult(status, detail) == [status |-> status, detail |-> detail]

IdleTurn ==
    [pc |-> "idle", flow |-> "none", req |-> NoRequest,
     annotation |-> <<>>,      \* the Annotation row looked up, if any
     thread |-> <<>>,          \* the rows of the thread as read
     lm |-> NoLm,              \* the guidance transcript
     selection |-> "",         \* the classifier's decision
     new_messages |-> <<>>,    \* what the orchestration returned
     response |-> <<>>,        \* the rows created for new_messages
     inflight |-> {},          \* the stage calls awaiting the model
     calls |-> <<>>,           \* the stage calls started, in order
     generated |-> <<>>,       \* the document the generator call returned
     commentary |-> <<>>,      \* the text the commentary call returned
     before |-> <<>>,          \* the thread's rows when the turn was accepted
     form_pages |-> NoPages,   \* the attachments of a Build request
     alone |-> TRUE,           \* no other turn on the thread was in flight with it
     record |-> <<>>,          \* what a request for a user or an annotation names
     result |-> NoResult]      \* what the endpoint hands to the caller

ThreadOf(p) == turn[p].req.thread_id

\* A turn is being served on the thread.
BusyOn(thread_id) ==
    \E q \in Procs : turn[q].pc # "idle" /\ ThreadOf(q) = thread_id

\* Worker p takes up the turn t on the thread; the turn and the turns in
\* flight on the same thread remember that they were not alone.
Joined(p, t, thread_id) ==
    [q \in Procs |->
        IF q = p THEN [t EXCEPT !.alone = ~BusyOn(thread_id)]
        ELSE IF turn[q].pc # "idle" /\ ThreadOf(q) = thread_id
             THEN [turn[q] EXCEPT !.alone = FALSE]
             ELSE turn[q]]

\* No document is being validated.
NotValidating == [candidate |-> JNull, call |-> "none", outcome |-> [kind |-> "none"]]

Init ==
    /\ users = <<>>
    /\ issued = 0
    /\ store = <<>>
    /\ annotations = <<>>
    /\ clock = 0
    /\ started = 0
    /\ turn = [p \in Procs |-> IdleTurn]
    /\ validation = NotValidating

\* POST /annotations/ (AnnotationService.create_annotation)
CreateAnnotation(structure, user_id) ==
    /\ issued < MaxAnnotations
    /\ issued' = issued + 1
    /\ annotations' = Append(annotations,
                             AnnotationRow(issued + 1, structure, user_id))
    /\ UNCHANGED <<users, validation, store, clock, started, turn>>

\* POST /fastformbuild/chat is accepted by worker p.
BeginBuild(p, req, form_pages) ==
    /\ turn[p].pc = "idle"
    /\ started < MaxTurns
    /\ started' = started + 1
    /\ turn' = Joined(p,
                  [IdleTurn EXCEPT !.pc = "history", !.flow = "build", !.req = req,
                                   !.form_pages = form_pages,
                                   !.before = SelectWhere(store, req.thread_id)],
                  req.thread_id)
    /\ UNCHANGED <<users, issued, validation, store, annotations, clock>>

\* POST /fastfill/chat is accepted by worker p.
BeginFill(p, req) ==
    /\ turn[p].pc = "idle"
    /\ started < MaxTurns
    /\ started' = started + 1
    /\ turn' = Joined(p,
                  [IdleTurn EXCEPT !.pc = "lookup", !.flow = "fill", !.req = req,
                                   !.before = SelectWhere(store, req.thread_id)],
                  req.thread_id)
    /\ UNCHANGED <<users, issued, validation, store, annotations, clock>>

\* FastfillMessageService.chat: the annotation lookup; a missing row raises
\* HTTPException 404 out of the endpoint.
LoadAnnotation(p) ==
    LET id == turn[p].req.load_annotation_id
        found == GetAnnotation(annotations, id.v)
    IN  /\ turn[p].pc = "lookup"
        /\ turn' = [turn EXCEPT ![p] =
              IF ~Truthy(id) THEN [@ EXCEPT !.pc = "history"]
              ELSE IF found = <<>>
                   THEN [@ EXCEPT !.pc = "done",
                                  !.result = ErrorResult(404, "Annotation not found")]
                   ELSE [@ EXCEPT !.pc = "history", !.annotation = found]]
        /\ UNCHANGED <<users, issued, validation, store, annotations, clock, started>>

\* The thread is seeded whether or not it already holds rows.
GetThreadHistoryReseed(p) ==
    LET thread == SelectWhere(store, ThreadOf(p))
    IN  /\ turn[p].pc = "history"
        /\ turn' = [turn EXCEPT ![p].thread = thread, ![p].pc = "seed"]
        /\ UNCHANGED <<users, issued, validation, store, annotations, clock, started>>

\* MessageService._get_thread_history: the select; an empty result raises
\* HTTPException 404, which chat catches to seed the thread.
GetThreadHistory(p) ==
    LET thread == SelectWhere(store, ThreadOf(p))
    IN  /\ turn[p].pc = "history"
        /\ turn' = [turn EXCEPT ![p].thread = thread,
                                ![p].pc = IF thread = <<>> THEN "seed" ELSE "user"]
        /\ UNCHANGED <<users, issued, validation, store, annotations, clock, started>>

\* The Fill seed ignores the annotation that was looked up.
SeedTextPlaceholder(p) ==
    IF turn[p].flow = "build" THEN SYSTEM_PROMPT
    ELSE SYSTEM_PROMPT_FILL(NoStructure)

\* The text of the system seed of a new thread.
SeedText(p) ==
    IF turn[p].flow = "build" THEN SYSTEM_PROMPT
    ELSE SYSTEM_PROMPT_FILL(IF turn[p].annotation # <<>>
                            THEN turn[p].annotation[1].structure
                            ELSE NoStructure)

\* The system message is added twice.
SeedSystemTwice(p) ==
    LET system_message ==
            Message(Len(store) + 1,
                    model_dump_json(ContentMessage("system", <<TextPart(SeedText(p))>>)),
                    ThreadOf(p), turn[p].req.user_id, default_timestamp(clock + 1))
        again == [system_message EXCEPT !.id = Len(store) + 2]
    IN  /\ turn[p].pc = "seed"
        /\ store' = store \o <<system_message, again>>
        /\ clock' = clock + 1
        /\ turn' = [turn EXCEPT ![p].thread = <<system_message>>, ![p].pc = "user"]
        /\ UNCHANGED <<users, issued, validation, annotations, started>>

\* chat, except-branch: the system message is added and committed.
SeedSystem(p) ==
    LET system_message ==
            Message(Len(store) + 1,
                    model_dump_json(ContentMessage("system", <<TextPart(SeedText(p))>>)),
                    ThreadOf(p), turn[p].req.user_id, default_timestamp(clock + 1))
    IN  /\ turn[p].pc = "seed"
        /\ store' = Append(store, system_message)
        /\ clock' = clock + 1
        /\ turn' = [turn EXCEPT ![p].thread = <<system_message>>, ![p].pc = "user"]
        /\ UNCHANGED <<users, issued, validation, annotations, started>>

\* chat: the thread is sorted and parsed into the context, the user message
\* is appended to it, and its row is added and committed.
PersistUser(p) ==
    LET sorted == SortByTimestamp(turn[p].thread)
        content_items == ContentItems(turn[p].req.content, turn[p].form_pages)
        user_message == ContentMessage("user", content_items)
        messages == Append(MapContent(sorted), user_message)
        user_message_db ==
            Message(Len(store) + 1, model_dump_json(user_message),
                    ThreadOf(p), turn[p].req.user_id, default_timestamp(clock + 1))
    IN  /\ turn[p].pc = "user"
        /\ store' = Append(store, user_message_db)
        /\ clock' = clock + 1
        /\ turn' = [turn EXCEPT ![p].thread = sorted,
                                ![p].lm = LmState(messages, <<>>),
                                ![p].pc = "classify"]
        /\ UNCHANGED <<users, issued, validation, annotations, started>>

\* A stage call goes out to the model.
CallOut(t, stage) ==
    [t EXCEPT !.inflight = @ \cup {stage}, !.calls = Append(@, stage)]

\* The model's answer to the open call becomes the text of the open block.
CallBack(t, stage, text) ==
    [t EXCEPT !.inflight = @ \ {stage},
              !.lm = LmState(@.messages,
                             <<ContentMessage("assistant", <<TextPart(text)>>)>>)]

\* ai.py: the intent question is written and json(name="yes_no") is called.
ClassifyStart(p) ==
    /\ turn[p].pc = "classify"
    /\ turn' = [turn EXCEPT ![p] =
          [CallOut(@, "classifier") EXCEPT
              !.lm = AssistantBlock(AssistantBlock(@, AskIntent(turn[p].flow)), Pending),
              !.pc = "classifying"]]
    /\ UNCHANGED <<users, issued, validation, store, annotations, clock, started>>

\* The classifier call returns; selection = j.loads(lm["yes_no"])["selection"].
ClassifyReturn(p) ==
    /\ turn[p].pc = "classifying"
    /\ \E sel \in Selections :
          LET yes_no == JsonText(JObj([selection |-> JStr(sel)]))
          IN  turn' = [turn EXCEPT ![p] =
                  [CallBack(@, "classifier", yes_no) EXCEPT
                      !.selection = yes_no.doc.fields.selection.s,
                      !.pc = "branch"]]
    /\ UNCHANGED <<users, issued, validation, store, annotations, clock, started>>

\* The generator is called without waiting for the classifier's answer.
GenerateStartEarly(p) ==
    /\ turn[p].pc = "classifying"
    /\ turn' = [turn EXCEPT ![p] =
          [CallOut(@, "generator") EXCEPT
              !.lm = AssistantBlock(AssistantBlock(@, AnnounceGenerate(turn[p].flow)),
                                    Pending),
              !.pc = "generating"]]
    /\ UNCHANGED <<users, issued, validation, store, annotations, clock, started>>

\* The generator is called whatever the classifier decided.
GenerateStartAlways(p) ==
    /\ turn[p].pc = "branch"
    /\ turn[p].selection \in Response
    /\ turn' = [turn EXCEPT ![p] =
          [CallOut(@, "generator") EXCEPT
              !.lm = AssistantBlock(AssistantBlock(@, AnnounceGenerate(turn[p].flow)),
                                    Pending),
              !.pc = "generating"]]
    /\ UNCHANGED <<users, issued, validation, store, annotations, clock, started>>

\* if selection == Response.yes.value: the announcement is written and
\* json(schema=Form) is called.
GenerateStart(p) ==
    /\ turn[p].pc = "branch"
    /\ turn[p].selection = "yes"
    /\ turn' = [turn EXCEPT ![p] =
          [CallOut(@, "generator") EXCEPT
              !.lm = AssistantBlock(AssistantBlock(@, AnnounceGenerate(turn[p].flow)),
                                    Pending),
              !.pc = "generating"]]
    /\ UNCHANGED <<users, issued, validation, store, annotations, clock, started>>

\* The generator call returns a document of the Form schema.
GenerateReturn(p) ==
    /\ turn[p].pc = "generating"
    /\ \E doc \in GenForms :
          turn' = [turn EXCEPT ![p] =
              [CallBack(@, "generator", JsonText(doc)) EXCEPT
                  !.generated = <<doc>>, !.pc = "comment"]]
    /\ UNCHANGED <<users, issued, validation, store, annotations, clock, started>>

\* The second branch written as a plain else: every decision but yes converses.
CommentStartElse(p) ==
    /\ \/ turn[p].pc = "comment"
       \/ turn[p].pc = "branch" /\ turn[p].selection # "yes"
    /\ turn' = [turn EXCEPT ![p] =
          [CallOut(@, "commentary") EXCEPT
              !.lm = AssistantBlock(
                        AssistantBlock(@, IF turn[p].selection = "yes"
                                          THEN AnnounceCommentary(turn[p].flow)
                                          ELSE AnnounceConversation(turn[p].flow)),
                        Pending),
              !.pc = "commenting"]]
    /\ UNCHANGED <<users, issued, validation, store, annotations, clock, started>>

\* gen("message") is called: after the structure in the yes branch, alone in
\* the no branch.
CommentStart(p) ==
    /\ \/ turn[p].pc = "comment"
       \/ turn[p].pc = "branch" /\ turn[p].selection = "no"
    /\ turn' = [turn EXCEPT ![p] =
          [CallOut(@, "commentary") EXCEPT
              !.lm = AssistantBlock(
                        AssistantBlock(@, IF turn[p].selection = "yes"
                                          THEN AnnounceCommentary(turn[p].flow)
                                          ELSE AnnounceConversation(turn[p].flow)),
                        Pending),
              !.pc = "commenting"]]
    /\ UNCHANGED <<users, issued, validation, store, annotations, clock, started>>

\* The messages the orchestration returns once the commentary is written.
NewMessages(selection, lm) ==
    IF selection = "yes"
    THEN <<SecondToLast(lm)>> \o <<get_active_message(lm)>>
    ELSE <<get_active_message(lm)>>

\* The commentary call returns; new_messages is assembled and returned.
CommentReturn(p) ==
    /\ turn[p].pc = "commenting"
    /\ \E text \in Commentaries :
          LET t == CallBack(turn[p], "commentary", text)
          IN  turn' = [turn EXCEPT ![p] =
                  [t EXCEPT !.commentary = <<text>>,
                            !.new_messages = NewMessages(t.selection, t.lm),
                            !.pc = "persist"]]
    /\ UNCHANGED <<users, issued, validation, store, annotations, clock, started>>

\* Neither branch is taken: new_messages stays [] and is returned.
NoBranch(p) ==
    /\ turn[p].pc = "branch"
    /\ turn[p].selection \notin Response
    /\ turn' = [turn EXCEPT ![p].new_messages = <<>>, ![p].pc = "persist"]
    /\ UNCHANGED <<users, issued, validation, store, annotations, clock, started>>

\* A model call raises (transport or provider error); nothing catches it and
\* the endpoint answers 500.
CallFails(p) ==
    /\ turn[p].inflight # {}
    /\ turn' = [turn EXCEPT ![p].inflight = {},
                            ![p].pc = "done",
                            ![p].result = ErrorResult(500, "Internal Server Error")]
    /\ UNCHANGED <<users, issued, validation, store, annotations, clock, started>>

\* A row is created for the first returned message only.
NewRowsFirstOnly(msgs, first_id, thread_id, user_id, now) ==
    [i \in 1..(IF msgs = <<>> THEN 0 ELSE 1) |->
        Message(first_id + i - 1, model_dump_json(msgs[i]), thread_id, user_id,
                default_timestamp(now + i))]

\* The rows are created for no user.
NewRowsUnowned(msgs, first_id, thread_id, user_id, now) ==
    [i \in 1..Len(msgs) |->
        Message(first_id + i - 1, model_dump_json(msgs[i]), thread_id, "",
                default_timestamp(now + i))]

\* The rows are created last message first.
NewRowsReversed(msgs, first_id, thread_id, user_id, now) ==
    [i \in 1..Len(msgs) |->
        Message(first_id + i - 1, model_dump_json(msgs[Len(msgs) + 1 - i]),
                thread_id, user_id, default_timestamp(now + i))]

\* The rows created for the returned messages: ids follow the table, the
\* timestamps are the clock readings at each construction.
NewRows(msgs, first_id, thread_id, user_id, now) ==
    [i \in 1..Len(msgs) |->
        Message(first_id + i - 1, model_dump_json(msgs[i]), thread_id, user_id,
                default_timestamp(now + i))]

\* chat: a row is added for every returned message, one commit stores them.
PersistResponse(p) ==
    LET created_messages ==
            NewRows(turn[p].new_messages, Len(store) + 1, ThreadOf(p),
                    turn[p].req.user_id, clock)
    IN  /\ turn[p].pc = "persist"
        /\ store' = store \o created_messages
        /\ clock' = clock + Len(created_messages)
        /\ turn' = [turn EXCEPT ![p].response = created_messages,
                                ![p].pc = "respond"]
        /\ UNCHANGED <<users, issued, validation, annotations, started>>

\* json.loads(response_messages[0].content)["content"][0].get("text")
FormData(row) ==
    LET first_content == model_validate_json(row.content)
    IN  IF Len(first_content.content) > 0
        THEN <<first_content.content[1].text>>
        ELSE <<>>

\* form_data is taken from the first message however many there are.
ChatResponseFirst(response_messages) ==
    IF response_messages = <<>>
    THEN ErrorResult(500, "No response")
    ELSE LET last_message == response_messages[Len(response_messages)]
         IN  [status |-> 200,
              id |-> last_message.id,
              content |-> last_message.content,
              thread_id |-> last_message.thread_id,
              timestamp |-> last_message.timestamp,
              user_id |-> last_message.user_id,
              form_data |-> FormData(response_messages[1])]

\* api.py fastformbuild_chat / fastfill_chat: the response body of a turn.
ChatResponse(response_messages) ==
    IF response_messages = <<>>
    THEN ErrorResult(500, "No response")
    ELSE LET last_message == response_messages[Len(response_messages)]
         IN  [status |-> 200,
              id |-> last_message.id,
              content |-> last_message.content,
              thread_id |-> last_message.thread_id,
              timestamp |-> last_message.timestamp,
              user_id |-> last_message.user_id,
              form_data |-> IF Len(response_messages) = 2
                            THEN FormData(response_messages[1])
                            ELSE <<>>]

\* The endpoint builds its answer from what the service returned.
Respond(p) ==
    /\ turn[p].pc = "respond"
    /\ turn' = [turn EXCEPT ![p].result = ChatResponse(turn[p].response),
                            ![p].pc = "done"]
    /\ UNCHANGED <<users, issued, validation, store, annotations, clock, started>>

\* The answer is delivered and the worker is free again.
Finish(p) ==
    /\ turn[p].pc = "done"
    /\ turn' = [turn EXCEPT ![p] = IdleTurn]
    /\ UNCHANGED <<users, issued, validation, store, annotations, clock, started>>

\* An empty history is an answer like any other.
ThreadHistoryLenient(rows, thread_id) ==
    LET thread == SelectWhere(rows, thread_id)
    IN  [status |-> 200,
         body |-> [i \in 1..Len(thread) |->
                      [id |-> thread[i].id,
                       content |-> thread[i].content,
                       thread_id |-> thread[i].thread_id,
                       timestamp |-> thread[i].timestamp,
                       user_id |-> thread[i].user_id,
                       form_data |-> <<>>]]]

\* api.py get_thread_history over MessageService._get_thread_history: 404
\* when the thread has no row, else the rows of the thread as selected.
ThreadHistory(rows, thread_id) ==
    LET thread == SelectWhere(rows, thread_id)
    IN  IF thread = <<>>
        THEN ErrorResult(404, "Thread not found")
        ELSE [status |-> 200,
              body |-> [i \in 1..Len(thread) |->
                           [id |-> thread[i].id,
                            content |-> thread[i].content,
                            thread_id |-> thread[i].thread_id,
                            timestamp |-> thread[i].timestamp,
                            user_id |-> thread[i].user_id,
                            form_data |-> <<>>]]]

\* GET /fastformbuild/threads/{thread_id}/history, served by a free worker
\* in one read of the table.
GetHistory(p, thread_id) ==
    /\ turn[p].pc = "idle"
    /\ turn' = [turn EXCEPT ![p] =
          [IdleTurn EXCEPT !.pc = "done", !.flow = "history",
                           !.req = ChatRequest(Txt(""), thread_id, "", None),
                           !.result = ThreadHistory(store, thread_id)]]
    /\ UNCHANGED <<users, issued, validation, store, annotations, clock, started>>

\* The thread ids are returned as selected, one for every row of the user.
get_threads_by_user_rows(rows, user_id) ==
    LET mine == SelectSeq(rows, LAMBDA m : m.user_id = user_id)
    IN  {[i \in 1..Len(mine) |-> mine[i].thread_id]}

\* MessageService.get_threads_by_user: the thread ids of the user's rows
\* are collected in a set, and list(set) hands them back in an order the
\* caller cannot tell beforehand: the lists it may return.
get_threads_by_user(rows, user_id) ==
    LET thread_ids == {rows[i].thread_id :
                          i \in {k \in 1..Len(rows) : rows[k].user_id = user_id}}
    IN  {body \in [1..Cardinality(thread_ids) -> thread_ids] :
            \A i, k \in DOMAIN body : i # k => body[i] # body[k]}

\* GET /fastformbuild/threads/{user_id}, served by a free worker in one read
\* of the table.
GetThreads(p, user_id) ==
    /\ turn[p].pc = "idle"
    /\ \E body \in get_threads_by_user(store, user_id) :
          turn' = [turn EXCEPT ![p] =
              [IdleTurn EXCEPT !.pc = "done", !.flow = "threads",
                               !.req = ChatRequest(Txt(""), "", user_id, None),
                               !.result = [status |-> 200, body |-> body]]]
    /\ UNCHANGED <<users, issued, validation, store, annotations, clock, started>>

\* The steps of a Build turn once it is accepted.
BuildStep(p) ==
    \/ GetThreadHistory(p)
    \/ SeedSystem(p)
    \/ PersistUser(p)
    \/ ClassifyStart(p)
    \/ ClassifyReturn(p)
    \/ GenerateStart(p)
    \/ GenerateReturn(p)
    \/ CommentStart(p)
    \/ CommentReturn(p)
    \/ NoBranch(p)
    \/ CallFails(p)
    \/ PersistResponse(p)
    \/ Respond(p)
    \/ Finish(p)

\* The steps of a turn once it is accepted.
Step(p) ==
    \/ LoadAnnotation(p)
    \/ BuildStep(p)

\* No turn is being served.
Quiet == \A q \in Procs : turn[q].pc = "idle"

\* The worker the pool hands a request to when all are free.
FirstWorker == "p1"

\* POST /annotations/ arrives while no turn is being served.
AcceptAnnotation(structure, user_id) == Quiet /\ CreateAnnotation(structure, user_id)

\* A chat request arrives while no other turn is being served.
AcceptBuild(p, req) == Quiet /\ p = FirstWorker /\ BeginBuild(p, req, NoPages)

AcceptFill(p, req) == Quiet /\ p = FirstWorker /\ BeginFill(p, req)

Next ==
    \/ \E s \in StructureTexts, u \in Users : AcceptAnnotation(s, u)
    \/ \E p \in Procs, req \in BuildRequests : AcceptBuild(p, req)
    \/ \E p \in Procs, req \in FillRequests : AcceptFill(p, req)
    \/ \E p \in Procs : Step(p)

\* Turns are served one after the other: callers serialize the turns of a
\* thread, and turns on different threads share no rows.
Spec == Init /\ [][Next]_vars

NextHistory ==
    \/ \E p \in Procs :
          \E req \in {ChatRequest(Txt(c), t, u, None) :
                         c \in UserTexts, t \in Threads, u \in {"u1", "u2"}} :
              AcceptBuild(p, req)
    \/ \E p \in Procs : BuildStep(p)
    \/ \E p \in Procs, t \in Threads : GetHistory(p, t)
    \/ \E p \in Procs, u \in {"u1", "u2"} : GetThreads(p, u)

\* Build turns of two users, served one after the other, and requests for
\* the history of a thread and for the threads of a user at any time.
SpecHistory == Init /\ [][NextHistory]_vars

(***************************************************************************)
(* The User table, and the requests for users and annotations. Each is     *)
(* served by a free worker in one transaction; the worker holds the answer *)
(* until it is delivered.                                                  *)
(***************************************************************************)
Emails == {"a@example.com", "b@example.com"}

\* models.User as create_user fills it from UserCreate.
User(id, email) == [id |-> id, email |-> email]

\* session.get(User, user_id): the rows with that primary key.
GetUser(rows, user_id) == SelectSeq(rows, LAMBDA u : u.id = user_id)

\* The worker has served the request and holds its answer.
Served(p, flow, record, result) ==
    [turn EXCEPT ![p] = [IdleTurn EXCEPT !.pc = "done", !.flow = flow,
                                         !.record = <<record>>, !.result = result]]

\* The row of an id that exists is written over.
CreateUserOverwrite(p, user_data) ==
    LET new_user == User(user_data.id, user_data.email)
    IN  /\ turn[p].pc = "idle"
        /\ users' = SelectSeq(users, LAMBDA u : u.id # user_data.id) \o <<new_user>>
        /\ turn' = Served(p, "create_user", user_data,
                          [status |-> 201, body |-> new_user])
        /\ UNCHANGED <<issued, validation, store, annotations, clock, started>>

\* POST /user (UserService.create_user): 409 when the id is taken, else the
\* row is added and returned with 201.
CreateUser(p, user_data) ==
    LET existing_user == GetUser(users, user_data.id)
        new_user == User(user_data.id, user_data.email)
    IN  /\ turn[p].pc = "idle"
        /\ IF existing_user # <<>>
           THEN /\ turn' = Served(p, "create_user", user_data,
                                  ErrorResult(409, "User already exists"))
                /\ UNCHANGED users
           ELSE /\ users' = Append(users, new_user)
                /\ turn' = Served(p, "create_user", user_data,
                                  [status |-> 201, body |-> new_user])
        /\ UNCHANGED <<issued, validation, store, annotations, clock, started>>

\* GET /user/{user_id} (UserService.get_user_by_id)
ReadUser(p, user_id) ==
    LET user == GetUser(users, user_id)
    IN  /\ turn[p].pc = "idle"
        /\ turn' = Served(p, "read_user", user_id,
                          IF user = <<>> THEN ErrorResult(404, "User not found")
                          ELSE [status |-> 200, body |-> user[1]])
        /\ UNCHANGED <<users, issued, validation, store, annotations, clock, started>>

\* A row of the Message table carries the user's id: the foreign key that
\* keeps the user's row from being deleted once the user's annotations are
\* gone.
RefersTo(user_id) == \E i \in 1..Len(store) : store[i].user_id = user_id

\* DELETE /user/{user_id} (UserService.delete_user): 404 when there is no
\* such row; the commit of the delete fails on the foreign key when rows
\* refer to the user, nothing catches that and the endpoint answers 500;
\* else the row is gone and the answer is 204.
DeleteUser(p, user_id) ==
    LET user == GetUser(users, user_id)
    IN  /\ turn[p].pc = "idle"
        /\ IF user = <<>>
           THEN /\ turn' = Served(p, "delete_user", user_id,
                                  ErrorResult(404, "User not found"))
                /\ UNCHANGED users
           ELSE IF RefersTo(user_id)
           THEN /\ turn' = Served(p, "delete_user", user_id,
                                  ErrorResult(500, "Internal Server Error"))
                /\ UNCHANGED users
           ELSE /\ users' = SelectSeq(users, LAMBDA u : u.id # user_id)
                /\ turn' = Served(p, "delete_user", user_id, [status |-> 204])
        /\ UNCHANGED <<issued, validation, store, annotations, clock, started>>

\* GET /annotation/{annotation_id} (AnnotationService.get_annotation_by_id)
ReadAnnotation(p, annotation_id) ==
    LET annotation == GetAnnotation(annotations, annotation_id)
    IN  /\ turn[p].pc = "idle"
        /\ turn' = Served(p, "read_annotation", annotation_id,
                          IF annotation = <<>>
                          THEN ErrorResult(404, "Annotation not found")
                          ELSE [status |-> 200, body |-> annotation[1]])
        /\ UNCHANGED <<users, issued, validation, store, annotations, clock, started>>

\* AnnotationService.update_annotation(self, annotation_data), called with
\* the positional arguments args: the rows it leaves and what it returns or
\* raises. It takes one argument; any other number is a TypeError of the
\* call, raised before the body runs.
update_annotation(rows, args) ==
    IF Len(args) # 1
    THEN [rows |-> rows, answer |-> ErrorResult(500, "Internal Server Error")]
    ELSE LET annotation_data == args[1]
             existing_annotation == GetAnnotation(rows, annotation_data.id)
             updated == [existing_annotation[1] EXCEPT
                            !.name = annotation_data.name,
                            !.description = annotation_data.description,
                            !.structure = annotation_data.structure]
         IN  IF existing_annotation = <<>>
             THEN [rows |-> rows, answer |-> ErrorResult(404, "Annotation not found")]
             ELSE [rows |-> [i \in 1..Len(rows) |->
                                IF rows[i].id = annotation_data.id THEN updated
                                ELSE rows[i]],
                   answer |-> [status |-> 200, body |-> updated]]

\* PUT /annotation/{annotation_id} (api.py update_annotation): the endpoint
\* hands the service the path id and the body, two arguments.
PutAnnotation(p, annotation_id, annotation_data) ==
    LET outcome == update_annotation(annotations, <<annotation_id, annotation_data>>)
    IN  /\ turn[p].pc = "idle"
        /\ annotations' = outcome.rows
        /\ turn' = Served(p, "update_annotation", annotation_data, outcome.answer)
        /\ UNCHANGED <<users, issued, validation, store, clock, started>>

\* The delete is answered and the row is left where it is.
DeleteAnnotationKept(p, annotation_id) ==
    /\ turn[p].pc = "idle"
    /\ turn' = Served(p, "delete_annotation", annotation_id,
                      IF GetAnnotation(annotations, annotation_id) = <<>>
                      THEN ErrorResult(404, "Annotation not found")
                      ELSE [status |-> 204])
    /\ UNCHANGED <<users, issued, validation, store, annotations, clock, started>>

\* DELETE /annotation/{annotation_id} (AnnotationService.delete_annotation)
DeleteAnnotation(p, annotation_id) ==
    LET annotation == GetAnnotation(annotations, annotation_id)
    IN  /\ turn[p].pc = "idle"
        /\ IF annotation = <<>>
           THEN /\ turn' = Served(p, "delete_annotation", annotation_id,
                                  ErrorResult(404, "Annotation not found"))
                /\ UNCHANGED annotations
           ELSE /\ annotations' = SelectSeq(annotations,
                                            LAMBDA a : a.id # annotation_id)
                /\ turn' = Served(p, "delete_annotation", annotation_id,
                                  [status |-> 204])
        /\ UNCHANGED <<users, issued, validation, store, clock, started>>

\* The first chat request the service gets, a Build turn.
FirstChat(p, req) == store = <<>> /\ AcceptBuild(p, req)

NextRecords ==
    \/ \E u \in Users, m \in Emails : CreateUser(FirstWorker, User(u, m))
    \/ \E u \in Users : ReadUser(FirstWorker, u)
    \/ \E u \in Users : DeleteUser(FirstWorker, u)
    \/ \E s \in StructureTexts, u \in Users : AcceptAnnotation(s, u)
    \/ \E n \in 0..MaxAnnotations : ReadAnnotation(FirstWorker, n)
    \/ \E n \in 0..MaxAnnotations, s \in {JsonText(NameForm), JsonText(ContactForm)} :
          PutAnnotation(FirstWorker, n,
                        [id |-> n, name |-> "updated", description |-> "new",
                         structure |-> s])
    \/ \E n \in 0..MaxAnnotations : DeleteAnnotation(FirstWorker, n)
    \/ \E p \in Procs, req \in BuildRequests : FirstChat(p, req)
    \/ \E p \in Procs : BuildStep(p)

\* Users and annotations are created, read, changed and deleted, one
\* request after the other, and a user chats.
SpecRecords == Init /\ [][NextRecords]_vars

\* Pages a caller may attach: base64 text of one or two bytes, text too
\* short for its padding, text with a character outside the alphabet.
GoodPage == <<"Q", "U", "J", "D">>
PaddedPage == <<"Q", "U", "I", "=">>
ShortPage == <<"Q", "Q">>
ForeignPage == <<"Q", "*", "J", "D">>

FormPagesInputs ==
    {NoPages, Pages(<<>>), Pages(<<ShortPage>>),
     Pages(<<GoodPage, ForeignPage, PaddedPage>>)}

\* A Build chat request with attachments arrives while no other turn is
\* being served.
AcceptBuildPages(p, req, form_pages) ==
    Quiet /\ p = FirstWorker /\ BeginBuild(p, req, form_pages)

NextAttachments ==
    \/ \E p \in Procs, req \in BuildRequests, form_pages \in FormPagesInputs :
          AcceptBuildPages(p, req, form_pages)
    \/ \E p \in Procs : BuildStep(p)

\* Build turns with attachments, served one after the other.
SpecAttachments == Init /\ [][NextAttachments]_vars

\* The wall clock is set back: rows constructed from now on carry
\* timestamps that do not exceed those of older rows.
ClockSetBack ==
    /\ clock > 0
    /\ clock' = 0
    /\ UNCHANGED <<users, issued, validation, store, annotations, started, turn>>

NextSkew ==
    \/ \E p \in Procs, req \in BuildRequests : AcceptBuild(p, req)
    \/ \E p \in Procs : BuildStep(p)
    \/ ClockSetBack

\* Build turns served one after the other under a wall clock that can be
\* set back.
SpecSkew == Init /\ [][NextSkew]_vars

\* The worker that serves the turns of a thread: callers send the turns of
\* one thread one after the other, those of different threads at any time.
WorkerOf(thread_id) == IF thread_id = "t1" THEN "p1" ELSE "p2"

AcceptBuildApart(p, req) ==
    ~BusyOn(req.thread_id) /\ p = WorkerOf(req.thread_id) /\ BeginBuild(p, req, NoPages)

NextApart ==
    \/ \E p \in Procs, req \in BuildRequests : AcceptBuildApart(p, req)
    \/ \E p \in Procs : BuildStep(p)

\* Build turns on different threads are served at the same time, the turns
\* of a thread one after the other.
SpecApart == Init /\ [][NextApart]_vars

\* A caller holds a candidate document.
InitValidator ==
    /\ users = <<>>
    /\ issued = 0
    /\ store = <<>>
    /\ annotations = <<>>
    /\ clock = 0
    /\ started = 0
    /\ turn = [p \in Procs |-> IdleTurn]
    /\ validation \in
          {[NotValidating EXCEPT !.candidate = doc] :
              doc \in LeafCandidates \cup GroupCandidates \cup TableCandidates
                      \cup SelectCandidates \cup ExtraCandidates
                      \cup RenamedCandidates \cup ListCandidates
                      \cup CellCandidates \cup NestedCandidates
                      \cup MissingCandidates
                      \cup {SampleForm}}

\* Form.model_validate(candidate)
ValidateForm ==
    /\ validation.call = "none"
    /\ validation' = [validation EXCEPT !.call = "model_validate",
                                        !.outcome = model_validate(validation.candidate)]
    /\ UNCHANGED <<users, issued, store, annotations, clock, started, turn>>

\* Form(title=..., elements=[Class(**attributes)]) with the class the
\* element names: the element is validated as that class, and the form
\* keeps the instance it is given.
BuildForm ==
    /\ validation.call = "none"
    /\ LET doc == validation.candidate
           element == doc.fields.elements.items[1]
           class == TModel(element.fields.element_name.s)
       IN  /\ DOMAIN doc.fields = {"title", "description", "elements"}
           /\ element.fields.element_name.s \in AnnotationEnum \cup AnnotationGroupEnum
           /\ validation' =
                 [validation EXCEPT !.call = "construct", !.outcome =
                     IF Raises(class, element) THEN [kind |-> "AttributeError"]
                     ELSE IF Errors(class, element, <<>>) # {}
                     THEN [kind |-> "ValidationError",
                           errors |-> Errors(class, element, <<>>)]
                     ELSE [kind |-> "ok",
                           instance |->
                               Instance("Form",
                                   [doc.fields EXCEPT
                                       !.elements = JList(<<Construct(class, element)>>)])]]
    /\ UNCHANGED <<users, issued, store, annotations, clock, started, turn>>

\* Form.model_validate(form.model_dump()) of an accepted form.
Reparse ==
    /\ validation.call \in {"model_validate", "construct"}
    /\ validation.outcome.kind = "ok"
    /\ validation' =
          [validation EXCEPT !.call = "round_trip", !.outcome =
              [kind |-> "reparsed", original |-> validation.outcome.instance,
               result |-> model_validate(model_dump(validation.outcome.instance))]]
    /\ UNCHANGED <<users, issued, store, annotations, clock, started, turn>>

NextValidator == ValidateForm \/ BuildForm \/ Reparse

\* Documents are validated as a Form.
SpecValidator == InitValidator /\ [][NextValidator]_vars

\* Requests go to the first worker that is free.
FreeWorker == IF turn["p1"].pc = "idle" THEN "p1" ELSE "p2"

\* The thread two callers chat on at the same time.
SharedThread == "t1"

\* A Build chat request on the shared thread arrives, whatever else is in
\* flight.
AcceptBuildTogether(p, req) ==
    /\ p = FreeWorker
    /\ req.thread_id = SharedThread
    /\ BeginBuild(p, req, NoPages)

NextTogether ==
    \/ \E p \in Procs, req \in BuildRequests : AcceptBuildTogether(p, req)
    \/ \E p \in Procs : BuildStep(p)

\* Build turns on one thread, served as they arrive: at the same time or
\* one after the other.
SpecTogether == Init /\ [][NextTogether]_vars

(***************************************************************************)
(* Vocabulary of the properties.                                           *)
(***************************************************************************)
\* The message a row stores.
Stored(row) == model_validate_json(row.content)

\* The thread of worker p's turn as persisted now, in the order the rows
\* were committed.
ThreadRows(p) == SelectWhere(store, ThreadOf(p))

\* The rows persisted on the thread since worker p's turn was accepted.
TurnRows(p) == SubSeq(ThreadRows(p), Len(turn[p].before) + 1, Len(ThreadRows(p)))

\* The orchestration has returned its messages to the service.
Returned(p) == turn[p].pc \in {"persist", "respond"}

\* The turn is over with an error for the caller.
Failed(p) == turn[p].pc = "done" /\ turn[p].result.status # 200

\* A message whose content is a serialized structure.
IsStructureMessage(cm) ==
    /\ cm.role = "assistant"
    /\ cm.content[1].text.k = "json"
    /\ "elements" \in DOMAIN cm.content[1].text.doc.fields

StructureMessage(doc) == ContentMessage("assistant", <<TextPart(JsonText(doc))>>)

CommentaryMessage(text) == ContentMessage("assistant", <<TextPart(text)>>)

\* The stage calls of a turn that are over.
Completed(p, stage) ==
    /\ \E i \in 1..Len(turn[p].calls) : turn[p].calls[i] = stage
    /\ stage \notin turn[p].inflight

\* How many times a stage was called in the turn.
Calls(p, stage) ==
    Cardinality({i \in 1..Len(turn[p].calls) : turn[p].calls[i] = stage})

(***************************************************************************)
(* Properties of a turn.                                                   *)
(***************************************************************************)
\* C1: when the orchestration of a Build or Fill turn returns, a yes decision
\* gives exactly two messages, the generated structure and then the
\* commentary, and a no decision gives exactly one, the commentary.
C1_TurnResultShape ==
    \A p \in Procs :
        Returned(p) =>
            /\ turn[p].selection = "yes" =>
                  /\ Len(turn[p].new_messages) = 2
                  /\ turn[p].new_messages[1] = StructureMessage(turn[p].generated[1])
                  /\ turn[p].new_messages[2] = CommentaryMessage(turn[p].commentary[1])
            /\ turn[p].selection = "no" =>
                  /\ Len(turn[p].new_messages) = 1
                  /\ turn[p].new_messages[1] = CommentaryMessage(turn[p].commentary[1])

C1_Witness ==
    \E p \in Procs :
        /\ Returned(p)
        /\ turn[p].flow = "fill"
        /\ turn[p].selection = "yes"
        /\ Len(turn[p].new_messages) = 2

\* C2: the stage calls of a turn are strictly ordered: the classifier call is
\* the first and is over before any other call starts, in the yes branch the
\* generator call is over before the commentary call starts, and at most one
\* call of the turn is in flight.
C2_StagesOrdered ==
    \A p \in Procs :
        /\ Cardinality(turn[p].inflight) <= 1
        /\ turn[p].calls # <<>> => turn[p].calls[1] = "classifier"
        /\ Len(turn[p].calls) >= 2 => Completed(p, "classifier")
        /\ \A i \in 1..Len(turn[p].calls) :
              turn[p].calls[i] = "commentary" /\ turn[p].selection = "yes" =>
                  /\ i = 3
                  /\ turn[p].calls[2] = "generator"
                  /\ turn[p].generated # <<>>

C2_Witness ==
    \E p \in Procs :
        /\ turn[p].calls = <<"classifier", "generator", "commentary">>
        /\ turn[p].inflight = {"commentary"}

\* C3: in a turn decided no the generator is never called, the one call after
\* the classification is a single commentary call, and no structure message
\* is returned or persisted for the turn.
C3_NoBranchConverses ==
    \A p \in Procs :
        turn[p].selection = "no" =>
            /\ Calls(p, "generator") = 0
            /\ Calls(p, "commentary") <= 1
            /\ turn[p].generated = <<>>
            /\ \A i \in 1..Len(turn[p].new_messages) :
                  ~IsStructureMessage(turn[p].new_messages[i])
            /\ \A i \in 1..Len(TurnRows(p)) : ~IsStructureMessage(Stored(TurnRows(p)[i]))
            /\ turn[p].pc \in {"respond", "done"} /\ turn[p].result.status # 500 =>
                  /\ turn[p].calls = <<"classifier", "commentary">>
                  /\ Len(turn[p].response) = 1

C3_Witness ==
    \E p \in Procs :
        /\ turn[p].selection = "no"
        /\ turn[p].pc = "done"
        /\ turn[p].result.status = 200
        /\ Len(TurnRows(p)) = 3

\* C4: a classifier decision that is neither yes nor no is fatal for the
\* turn: no generator or commentary call is made, no assistant message is
\* persisted, and the caller is answered with an error.
C4_OtherDecisionFatal ==
    \A p \in Procs :
        turn[p].selection \notin (Response \cup {""}) =>
            /\ turn[p].calls = <<"classifier">>
            /\ turn[p].inflight = {}
            /\ \A i \in 1..Len(TurnRows(p)) : Stored(TurnRows(p)[i]).role # "assistant"
            /\ turn[p].pc = "done" => turn[p].result.status = 500

C4_Witness ==
    \E p \in Procs :
        /\ turn[p].selection = "maybe"
        /\ turn[p].pc = "done"
        /\ turn[p].result = ErrorResult(500, "No response")

\* The structure of a document: the document without its value attributes.
RECURSIVE Shape(_)
Shape(doc) ==
    CASE doc.j = "obj" ->
            [j |-> "obj",
             fields |-> [key \in (DOMAIN doc.fields) \ {"value"} |->
                            Shape(doc.fields[key])]]
      [] doc.j = "list" ->
            [j |-> "list",
             items |-> [i \in 1..Len(doc.items) |-> Shape(doc.items[i])]]
      [] OTHER -> doc

\* The rows of the whole table that store a structure.
StructureRows == {i \in 1..Len(store) : IsStructureMessage(Stored(store[i]))}

\* The document a structure message carries.
StructureOf(cm) == cm.content[1].text.doc

\* The annotation a Fill request names, as the table holds it.
Referenced(p) ==
    IF turn[p].req.load_annotation_id.some
    THEN GetAnnotation(annotations, turn[p].req.load_annotation_id.v)
    ELSE <<>>

\* The turn is past the seeding of its thread.
Seeded(p) == turn[p].pc \notin {"idle", "lookup", "history", "seed"}

SystemRows(rows) == {i \in 1..Len(rows) : Stored(rows[i]).role = "system"}

\* C5: a turn that fails leaves the thread's persisted messages as they were
\* when the turn began: neither the system seed nor the user message stays.
C5_FailedTurnLeavesNothing ==
    \A p \in Procs :
        Failed(p) => SelectWhere(store, ThreadOf(p)) = turn[p].before

\* C6: a generated structure is persisted as a structure message only if it
\* passes the validation of Form, the validator functions included.
C6_OnlyValidStructuresPersisted ==
    \A i \in StructureRows : Validates(StructureOf(Stored(store[i])))

\* C7: in a Fill turn decided yes the structure returned has the structure
\* of the stored one it was asked to fill, and differs from it in value
\* attributes only.
C7_FillKeepsStructure ==
    \A p \in Procs :
        /\ turn[p].flow = "fill"
        /\ turn[p].annotation # <<>>
        /\ Returned(p)
        /\ turn[p].selection = "yes"
        => Shape(StructureOf(turn[p].new_messages[1]))
              = Shape(turn[p].annotation[1].structure.doc)

\* C8: a Build chat on a thread without rows is not answered not-found: the
\* build instructions are persisted as the thread's first row, before the
\* user message; a chat on a thread with rows adds no system message; so a
\* thread with rows holds exactly one system message, its earliest row.
C8_OneSystemSeedFirst ==
    /\ \A th \in Threads :
          SelectWhere(store, th) # <<>> =>
              SystemRows(SelectWhere(store, th)) = {1}
    /\ \A p \in Procs :
          turn[p].flow = "build" =>
              /\ turn[p].result.status # 404
              /\ Seeded(p) /\ turn[p].before = <<>> /\ turn[p].pc # "user" =>
                    /\ Stored(ThreadRows(p)[1])
                          = ContentMessage("system", <<TextPart(SYSTEM_PROMPT)>>)
                    /\ Stored(ThreadRows(p)[2])
                          = ContentMessage("user", <<TextPart(turn[p].req.content)>>)
              /\ turn[p].before # <<>> =>
                    \A i \in 1..Len(TurnRows(p)) :
                        Stored(TurnRows(p)[i]).role # "system"

C8_Witness ==
    \E p \in Procs :
        /\ turn[p].flow = "build"
        /\ turn[p].before # <<>>
        /\ turn[p].pc = "done"
        /\ turn[p].result.status = 200
        /\ Len(ThreadRows(p)) >= 5

\* C9: the first Fill turn on a thread without rows seeds a system message
\* whose instructions embed the referenced annotation's structure as stored;
\* without an annotation id the turn goes on to the model and the seed
\* embeds the text 'No structure provided'.
C9_FillSeedEmbedsStructure ==
    \A p \in Procs :
        turn[p].flow = "fill" /\ turn[p].before = <<>> =>
            /\ Seeded(p) /\ Referenced(p) # <<>> =>
                  Stored(ThreadRows(p)[1]) =
                      ContentMessage("system",
                          <<TextPart(SYSTEM_PROMPT_FILL(Referenced(p)[1].structure))>>)
            /\ turn[p].req.load_annotation_id = None =>
                  /\ turn[p].result.status # 404
                  /\ turn[p].pc = "done" => turn[p].calls # <<>>
                  /\ Seeded(p) =>
                        Stored(ThreadRows(p)[1]) =
                            ContentMessage("system",
                                <<TextPart(SYSTEM_PROMPT_FILL(
                                      Txt("No structure provided")))>>)

C9_Witness ==
    \E p \in Procs :
        /\ turn[p].flow = "fill"
        /\ turn[p].before = <<>>
        /\ Referenced(p) # <<>>
        /\ turn[p].pc = "classify"
        /\ Len(ThreadRows(p)) = 2

\* C10: a Fill turn that names an annotation id the table does not hold ends
\* not-found before a row is persisted or the model is called.
C10_MissingAnnotationNotFound ==
    \A p \in Procs :
        /\ turn[p].flow = "fill"
        /\ turn[p].req.load_annotation_id.some
        /\ Referenced(p) = <<>>
        /\ turn[p].pc # "lookup"
        => /\ turn[p].pc = "done"
           /\ turn[p].result.status = 404
           /\ turn[p].calls = <<>>
           /\ SelectWhere(store, ThreadOf(p)) = turn[p].before

(***************************************************************************)
(* Properties of the attachments of a Build turn.                          *)
(***************************************************************************)
\* The pages of an attachment list that decode, in the caller's order.
Decoding(form_pages) ==
    IF form_pages.some THEN SelectSeq(form_pages.list, b64decode_validates)
    ELSE <<>>

\* The user message has been persisted for the turn.
UserPersisted(p) == turn[p].pc \notin {"idle", "lookup", "history", "seed", "user"}

\* The row of the turn's user message: it follows the rows the thread had,
\* and the seed if the thread had none.
UserRow(p) ==
    ThreadRows(p)[Len(turn[p].before) + (IF turn[p].before = <<>> THEN 2 ELSE 1)]

\* The rows a turn that answers adds to its thread, attachments or not: the
\* seed of a new thread, the user message, and two messages for a yes and
\* one for a no.
ExpectedRows(p) ==
    (IF turn[p].before = <<>> THEN 1 ELSE 0) + 1
        + (IF turn[p].selection = "yes" THEN 2 ELSE 1)

SeedRows(p) == IF turn[p].before = <<>> THEN <<ThreadRows(p)[1]>> ELSE <<>>

\* The turn has answered its caller with its messages.
Answered(p) == turn[p].pc = "done" /\ turn[p].result.status = 200

\* A step keeps every committed row of the Message table as it is.
RowsKept == SubSeq(store', 1, Len(store)) = store

\* What a turn on its thread leaves and sees.
HistoryExtended ==
    \A p \in Procs :
        /\ turn[p].flow # "none" =>
              SubSeq(ThreadRows(p), 1, Len(turn[p].before)) = turn[p].before
        /\ Answered(p) =>
              /\ ThreadRows(p)
                    = turn[p].before \o SeedRows(p) \o <<UserRow(p)>> \o turn[p].response
              /\ Stored(UserRow(p)).role = "user"
              /\ MapContent(turn[p].response) = turn[p].new_messages
              /\ turn[p].new_messages # <<>>
        /\ turn[p].pc = "classify" =>
              turn[p].lm.messages = MapContent(SortByTimestamp(ThreadRows(p)))

\* C12: a completed turn leaves on its thread the rows the thread had, the
\* seed if it had none, the user message, and then exactly the messages the
\* turn returned, in their order; no committed row is ever changed or
\* removed; the context of a turn is the whole history the turns before it
\* left, with its own user message.
C12_HistoryAppended == []HistoryExtended /\ [][RowsKept]_vars

C12_Witness ==
    \E p \in Procs :
        /\ Answered(p)
        /\ turn[p].selection = "yes"
        /\ Len(turn[p].before) = 4
        /\ Len(ThreadRows(p)) = 7

(***************************************************************************)
(* Properties of the context of a turn.                                    *)
(***************************************************************************)
\* The rows are in ascending order of timestamp.
Ascending(rows) ==
    \A i \in 1..Len(rows) - 1 : rows[i].timestamp <= rows[i + 1].timestamp

\* The same rows, in whatever order.
SameRows(a, b) ==
    /\ Len(a) = Len(b)
    /\ {a[i] : i \in 1..Len(a)} = {b[i] : i \in 1..Len(b)}

\* The rows the thread held before the turn's user message was added.
PriorRows(p) == SubSeq(ThreadRows(p), 1, Len(ThreadRows(p)) - 1)

\* C13: the context handed to the classifier is the messages the thread
\* held, in ascending order of timestamp, and then the new user message as
\* the last one.
C13_ContextOrdered ==
    \A p \in Procs :
        turn[p].pc = "classify" =>
            LET context == turn[p].lm.messages
            IN  /\ SameRows(turn[p].thread, PriorRows(p))
                /\ Ascending(turn[p].thread)
                /\ Len(context) = Len(turn[p].thread) + 1
                /\ SubSeq(context, 1, Len(context) - 1) = MapContent(turn[p].thread)
                /\ context[Len(context)]
                      = ContentMessage("user",
                            ContentItems(turn[p].req.content, turn[p].form_pages))
                /\ context[Len(context)] = Stored(ThreadRows(p)[Len(ThreadRows(p))])

C13_Witness ==
    \E p \in Procs :
        /\ turn[p].pc = "classify"
        /\ Len(turn[p].thread) >= 3
        /\ turn[p].thread # PriorRows(p)

(***************************************************************************)
(* Properties of the response body.                                        *)
(***************************************************************************)
\* C14: the response body of a turn carries the last new message, the
\* commentary, as its content; form_data is set only when the turn produced
\* exactly two messages, and then it is the text of the first, the
\* structure; for a turn of one message form_data is null.
C14_ResponseBody ==
    \A p \in Procs :
        Answered(p) =>
            LET n == Len(turn[p].response)
                body == turn[p].result
            IN  /\ n \in {1, 2}
                /\ body.id = turn[p].response[n].id
                /\ body.content
                      = model_dump_json(CommentaryMessage(turn[p].commentary[1]))
                /\ body.thread_id = ThreadOf(p)
                /\ n = 2 =>
                      /\ turn[p].selection = "yes"
                      /\ body.form_data = <<JsonText(turn[p].generated[1])>>
                /\ n = 1 =>
                      /\ turn[p].selection = "no"
                      /\ body.form_data = <<>>

C14_Witness ==
    \E p \in Procs :
        /\ Answered(p)
        /\ turn[p].flow = "fill"
        /\ Len(turn[p].response) = 2
        /\ turn[p].result.form_data = <<JsonText(NameFormAda)>>

(***************************************************************************)
(* Properties of turns served at the same time.                            *)
(***************************************************************************)
\* The seed message a turn adds to a thread that had no rows.
SeedMessages(p) ==
    IF turn[p].before = <<>>
    THEN <<ContentMessage("system", <<TextPart(SeedText(p))>>)>>
    ELSE <<>>

\* The user message of a turn.
UserMessage(p) ==
    ContentMessage("user", ContentItems(turn[p].req.content, turn[p].form_pages))

\* C15: with turns on different threads in flight together, the rows a turn
\* reads and the context it hands to the classifier hold messages of its
\* own thread only, and the thread's history after the turn is what the
\* turn alone makes of it: the rows it had, the seed if it had none, the
\* user message, the messages returned.
C15_ThreadsApart ==
    \A p \in Procs :
        turn[p].flow # "none" =>
            /\ \A i \in 1..Len(turn[p].thread) :
                  turn[p].thread[i].thread_id = ThreadOf(p)
            /\ SubSeq(ThreadRows(p), 1, Len(turn[p].before)) = turn[p].before
            /\ turn[p].pc = "classify" =>
                  turn[p].lm.messages
                      = MapContent(turn[p].before) \o SeedMessages(p)
                            \o <<UserMessage(p)>>
            /\ Answered(p) =>
                  MapContent(ThreadRows(p))
                      = MapContent(turn[p].before) \o SeedMessages(p)
                            \o <<UserMessage(p)>> \o turn[p].new_messages

\* Both workers are busy, one has answered, and the rows of its thread are
\* not next to each other in the table.
C15_Witness ==
    \E p \in Procs, q \in Procs :
        /\ p # q
        /\ Answered(p)
        /\ turn[q].pc = "classify"
        /\ \E i \in 1..Len(store), k \in 1..Len(store) :
              /\ i < k
              /\ store[i].thread_id = ThreadOf(q)
              /\ store[k].thread_id = ThreadOf(q)
              /\ \E m \in (i + 1)..(k - 1) : store[m].thread_id = ThreadOf(p)

\* The turn added or saw a second system seed on its thread.
TwoSeeds(p) == Cardinality(SystemRows(TurnRows(p))) >= 2

\* The thread is not the rows it had, the seed, the user message and the
\* turn's response, in that order.
ResponseAstray(p) ==
    /\ Answered(p)
    /\ ThreadRows(p)
          # turn[p].before \o SeedRows(p) \o <<UserRow(p)>> \o turn[p].response

\* The context handed to the classifier lacks a message the thread holds.
ContextStale(p) ==
    /\ turn[p].pc = "classify"
    /\ Len(turn[p].lm.messages) < Len(ThreadRows(p))

Corrupted(p) == TwoSeeds(p) \/ ResponseAstray(p) \/ ContextStale(p)

\* C16: with two turns on one thread in flight together the history can be
\* corrupted: two system seeds, a response that does not follow its own
\* user message, a context without the other turn's persisted user
\* message; a turn that was alone on its thread never meets any of these.
C16_CorruptedOnlyTogether ==
    \A p \in Procs :
        turn[p].flow # "none" /\ Corrupted(p) => ~turn[p].alone

C16_Witness ==
    \E p \in Procs :
        /\ ~turn[p].alone
        /\ TwoSeeds(p)
        /\ ResponseAstray(p)

(***************************************************************************)
(* Properties of validation.                                               *)
(***************************************************************************)
\* The candidate has been validated.
Validated == validation.call = "model_validate"

\* Validation rejected the candidate.
Rejected == Validated /\ validation.outcome.kind = "ValidationError"

Accepted == Validated /\ validation.outcome.kind = "ok"

\* The one element of the candidate form.
Element == validation.candidate.fields.elements.items[1]

\* The error lines of a rejection found at a location that ends with the
\* given names.
LinesAt(suffix) ==
    {line \in validation.outcome.errors :
        /\ Len(line.loc) >= Len(suffix)
        /\ SubSeq(line.loc, Len(line.loc) - Len(suffix) + 1, Len(line.loc)) = suffix}

RECURSIVE HasEmptyGroup(_)
\* The document holds a group without annotations, at any depth.
HasEmptyGroup(doc) ==
    CASE doc.j = "obj" ->
            \/ /\ "annotations" \in DOMAIN doc.fields
               /\ doc.fields.annotations.j = "list"
               /\ doc.fields.annotations.items = <<>>
            \/ \E f \in DOMAIN doc.fields : HasEmptyGroup(doc.fields[f])
      [] doc.j = "list" -> \E i \in 1..Len(doc.items) : HasEmptyGroup(doc.items[i])
      [] OTHER -> FALSE

\* C18: validation rejects every group, Section, Repeat, Wizard or Table,
\* whose annotations list is empty; every accepted group holds at least one
\* annotation.
C18_GroupsNotEmpty ==
    Validated =>
        /\ HasEmptyGroup(validation.candidate) =>
              /\ Rejected
              /\ \E line \in LinesAt(<<"annotations">>) : line.type = "too_short"
        /\ Accepted => ~HasEmptyGroup(validation.candidate)

C18_Witness ==
    /\ Rejected
    /\ validation.candidate
          = FormDoc("F", <<TableAround(GroupDoc("WizardStep", 0,
                                                GroupAttributes("WizardStep")))>>)

\* The rows of the table whose length differs from the number of columns.
OffendingRows ==
    {i \in 1..Len(Element.fields.rows.items) :
        Len(Element.fields.rows.items[i].items) # Len(Element.fields.columns.items)}

\* C19: a table validates only when every row is as long as the list of
\* columns; any other table is rejected, and an error line of the rejection
\* names an offending row.
C19_OffendingRowNamed ==
    Validated /\ validation.candidate \in TableCandidates =>
        /\ Accepted <=> OffendingRows = {}
        /\ OffendingRows # {} =>
              /\ Rejected
              /\ \E i \in OffendingRows : LinesAt(<<"rows", ToString(i - 1)>>) # {}

\* The value and the multi flag of the select agree.
SelectAgrees ==
    LET value == Element.fields.value
    IN  \/ value.j = "null"
        \/ Element.fields.multi.b <=> value.j = "list"

\* C20: a select is rejected when multi is set and the value is one option,
\* and when multi is not set and the value is a list; a null value is
\* accepted either way, and an accepted value is the one that was given.
C20_SelectValueChecked ==
    Validated /\ validation.candidate \in SelectCandidates =>
        /\ ~SelectAgrees => Rejected
        /\ SelectAgrees =>
              /\ Accepted
              /\ model_dump(validation.outcome.instance) = validation.candidate

RECURSIVE HasExtra(_)
\* The document carries the undeclared attribute, at any depth.
HasExtra(doc) ==
    CASE doc.j = "obj" ->
            \/ "extra" \in DOMAIN doc.fields
            \/ \E f \in DOMAIN doc.fields : HasExtra(doc.fields[f])
      [] doc.j = "list" -> \E i \in 1..Len(doc.items) : HasExtra(doc.items[i])
      [] OTHER -> FALSE

\* C21: validation rejects every form that carries an attribute the schema
\* does not declare, wherever it is: on the Form, on a leaf, on a
\* Coordinate, on a SelectOption, on a group, on an annotation of a group or
\* on a cell of a table row.
C21_ExtraRejected ==
    Validated /\ HasExtra(validation.candidate) =>
        /\ Rejected
        /\ \E line \in LinesAt(<<"extra">>) : line.type = "extra_forbidden"

C21_Witness ==
    /\ Rejected
    /\ validation.candidate
          = FormDoc("F", <<[SelectDoc(FALSE, JNull) EXCEPT
                              !.fields.options.items[1] = WithExtra(OptionDoc("a"))]>>)

\* The names the discriminator of the element may take: those of the group
\* classes for an element that holds annotations, those of the leaf classes
\* for any other.
ClosedNames ==
    IF "annotations" \in DOMAIN Element.fields THEN AnnotationGroupEnum
    ELSE AnnotationEnum

\* C22: validation rejects every leaf whose element_name is not one of the
\* fourteen names of the leaf classes and every group whose element_name is
\* not one of the four names of the group classes.
C22_UnknownNameRejected ==
    Validated /\ Element.fields.element_name.s \notin ClosedNames =>
        /\ Rejected
        /\ \E line \in LinesAt(<<"element_name">>) : line.type = "enum"

C22_Witness ==
    /\ Rejected
    /\ validation.candidate
          = FormDoc("F", <<Renamed(LeafDoc("NumberField", 2), "Other")>>)

\* The elements of the accepted form, as instances.
ElementInstances == validation.outcome.instance.fields.elements.items

\* C23: every element of an accepted form is an instance of the class its
\* element_name names.
C23_NameIdentifiesVariant ==
    Accepted =>
        \A i \in 1..Len(ElementInstances) :
            ElementInstances[i].name = ElementInstances[i].fields.element_name.s

\* Forms whose nullable attributes are all null: every value, both numbers
\* of every Coordinate, and the optional limits.
NullForms ==
    {SampleForm}
    \cup {FormDoc("F", <<LeafDoc(kind, 2)>>) : kind \in AnnotationEnum}
    \cup {FormDoc("F", <<GroupDoc(kind, 1, GroupAttributes(kind))>>) :
            kind \in {"RepeatGroup", "WizardStep"}}

Reparsed == validation.call = "round_trip"

\* C25: serializing a valid Form instance and parsing the result succeeds
\* and gives an instance equal to the original, every element of the class
\* it had.
C25_RoundTrip ==
    Reparsed =>
        /\ validation.outcome.result.kind = "ok"
        /\ validation.outcome.result.instance = validation.outcome.original

RECURSIVE Unfilled(_)
\* The document leaves to the frontend what is the frontend's: both numbers
\* of every Coordinate and the value of every leaf are null.
Unfilled(doc) ==
    CASE doc.j = "obj" ->
            /\ "x" \in DOMAIN doc.fields =>
                  doc.fields.x.j = "null" /\ doc.fields.y.j = "null"
            /\ {"bbox", "value"} \subseteq DOMAIN doc.fields =>
                  doc.fields.value.j = "null"
            /\ \A f \in DOMAIN doc.fields : Unfilled(doc.fields[f])
      [] doc.j = "list" -> \A i \in 1..Len(doc.items) : Unfilled(doc.items[i])
      [] OTHER -> TRUE

\* C26: in every structure a Build turn persists, both numbers of every
\* Coordinate are null and every value is null: a generated structure with a
\* populated Coordinate is not accepted.
C26_GeneratedUnfilled ==
    \A p \in Procs :
        turn[p].flow = "build" =>
            \A i \in 1..Len(TurnRows(p)) :
                IsStructureMessage(Stored(TurnRows(p)[i])) =>
                    Unfilled(StructureOf(Stored(TurnRows(p)[i])))

\* C27: validation accepts a ListField whose items are leaves of any of the
\* fourteen classes carrying the attributes of their class, lists among
\* them.  (A SelectField item aside, whose validator function raises.)
C27_ListHoldsAnyVariant ==
    /\ Validated
    /\ validation.candidate \in ListCandidates
    /\ ~Raises(TModel("Form"), validation.candidate)
    => Accepted

\* The elements of each class: the leaves, the groups that are no table,
\* the tables.
Leaves == {LeafDoc(kind, 2) : kind \in AnnotationEnum}

PlainGroups ==
    {GroupDoc(kind, 1, GroupAttributes(kind)) :
        kind \in AnnotationGroupEnum \ {"TableGroup"}}

Tables == {TableDoc(columns, <<>>) : columns \in 0..MaxCells}

\* Validation of the candidate completes: no validator function raises.
Completes == ~Raises(TModel("Form"), validation.candidate)

AddedRows == SubSeq(store', Len(store) + 1, Len(store'))

\* The rows a step adds carry the thread and the user of the turn in flight.
RowsOwned ==
    AddedRows # <<>> =>
        \E p \in Procs :
            /\ turn[p].flow = "build"
            /\ \A i \in 1..Len(AddedRows) :
                  /\ AddedRows[i].thread_id = turn[p].req.thread_id
                  /\ AddedRows[i].user_id = turn[p].req.user_id

\* The answer of a turn carries the thread and the user of its request.
ResponseOwned ==
    \A p \in Procs :
        turn[p].flow = "build" /\ Answered(p) =>
            /\ turn[p].result.thread_id = turn[p].req.thread_id
            /\ turn[p].result.user_id = turn[p].req.user_id

\* C29: every message a chat turn persists, the seed, the user message, the
\* structure and the commentary, carries the thread_id and the user_id of
\* the request, and so does the response handed to the caller.
C29_IdsCarried == []ResponseOwned /\ [][RowsOwned]_vars

C29_Witness ==
    \E p \in Procs :
        /\ turn[p].flow = "build" /\ Answered(p)
        /\ turn[p].req.user_id = "u2"
        /\ turn[p].selection = "yes"
        /\ Len(turn[p].before) = 4
        /\ turn[p].before[1].user_id = "u1"
        /\ \A i \in 1..Len(TurnRows(p)) : TurnRows(p)[i].user_id = "u2"

\* The rows of the table on the thread, by position.
RowsOn(thread_id) == {i \in 1..Len(store) : store[i].thread_id = thread_id}

\* A request for the history of a thread is answered in this step: 404
\* exactly when the table holds no row of the thread, and else the rows of
\* the thread, all of them and no other.
HistoryAnswered ==
    \A p \in Procs :
        turn[p].pc = "idle" /\ turn'[p].flow = "history" =>
            LET answer == turn'[p].result
                thread_id == turn'[p].req.thread_id
            IN  /\ answer.status = 404 <=> RowsOn(thread_id) = {}
                /\ answer.status \in {200, 404}
                /\ answer.status = 200 =>
                      /\ answer.body # <<>>
                      /\ Len(answer.body) = Cardinality(RowsOn(thread_id))
                      /\ {answer.body[i].id : i \in 1..Len(answer.body)}
                            = {store[i].id : i \in RowsOn(thread_id)}
                      /\ \A i \in 1..Len(answer.body) :
                            answer.body[i].thread_id = thread_id
                /\ (\E q \in Procs :
                        turn[q].flow = "build" /\ ThreadOf(q) = thread_id /\ Seeded(q)) =>
                      answer.status = 200

\* C30: the history of a thread is not found exactly when no message of the
\* thread is persisted; once a turn on the thread has persisted its first
\* message the request succeeds with a non-empty list of every message of
\* the thread and of no other thread.
C30_HistoryFound == [][HistoryAnswered]_vars

C30_Witness ==
    \E p \in Procs :
        /\ turn[p].flow = "history"
        /\ turn[p].result.status = 200
        /\ Len(turn[p].result.body) = 2
        /\ Len(store) > 2

\* The attributes of the document that the base class Annotation does not
\* declare.
VariantAttributes(doc) == DOMAIN doc.fields \ DOMAIN AnnotationFields

\* The annotations of the candidate's element, a group, as documents.
Nested == Element.fields.annotations.items

\* C36: an annotation in the annotations list of a group is validated as
\* the base class Annotation: given as data with an attribute of its leaf
\* class (value, options, ...), it is rejected with an extra_forbidden line
\* at that attribute, so the annotations of a group of an accepted form
\* carry title, description, bbox and element_name and nothing else.
C36_NestedBare ==
    Validated /\ "annotations" \in DOMAIN Element.fields =>
        /\ \A i \in 1..Len(Nested) : \A f \in VariantAttributes(Nested[i]) :
              /\ Rejected
              /\ \E line \in LinesAt(<<"annotations", ToString(i - 1), f>>) :
                    line.type = "extra_forbidden"
        /\ Accepted =>
              \A i \in 1..Len(ElementInstances) :
                  \A k \in 1..Len(ElementInstances[i].fields.annotations.items) :
                      LET inner == ElementInstances[i].fields.annotations.items[k]
                      IN  /\ inner.name = "Annotation"
                          /\ DOMAIN inner.fields = DOMAIN AnnotationFields

C36_Witness ==
    /\ Rejected
    /\ validation.candidate
          = FormDoc("F", <<[GroupDoc("SectionGroup", 1, GroupAttributes("SectionGroup"))
                              EXCEPT !.fields.annotations.items[1] =
                                         LeafDoc("RadioField", 2)]>>)

\* The attributes the class named by the element declares and the element
\* does not carry.
Absent == DOMAIN Fields(Element.fields.element_name.s) \ DOMAIN Element.fields

\* The corners of the element's bounding box that lack a key.
OpenCorners ==
    {c \in 1..Len(Element.fields.bbox.items) :
        {"x", "y"} \ DOMAIN Element.fields.bbox.items[c].fields # {}}

\* C37: an attribute that takes null is required all the same: validation
\* rejects a leaf that carries attributes of its class only and lacks its
\* value key, a TextAreaField without max_length and a Coordinate without
\* x or y, naming the missing attribute.
C37_NullableRequired ==
    /\ Validated /\ "bbox" \in DOMAIN Element.fields
          /\ Element.fields.element_name.s \in AnnotationEnum
          /\ DOMAIN Element.fields \subseteq DOMAIN Fields(Element.fields.element_name.s)
          /\ Absent \cap {"value", "max_length"} # {} =>
             /\ Rejected
             /\ \A f \in Absent : \E line \in LinesAt(<<f>>) : line.type = "missing"
    /\ Validated /\ "bbox" \in DOMAIN Element.fields /\ OpenCorners # {} =>
             /\ Rejected
             /\ \E line \in LinesAt(<<"x">>) \cup LinesAt(<<"y">>) :
                   line.type = "missing"

(***************************************************************************)
(* Properties of a turn on a thread that has rows.                         *)
(***************************************************************************)
\* The Fill turn of worker p was accepted on a thread that had rows.
FillsOld(p) == turn[p].flow = "fill" /\ turn[p].before # <<>>

\* C38: a Fill turn on a thread that has rows adds no system message, and
\* its context is the history of the thread and its own user message: the
\* structure it refers to enters the context nowhere. The seed of the
\* thread stays what the first turn on the thread made it, whichever flow
\* that was, and the annotation id decides only whether the turn ends
\* not-found, which it does before a row is added or the model is called.
C38_SeedFixed ==
    \A p \in Procs :
        FillsOld(p) =>
            /\ \A i \in 1..Len(TurnRows(p)) : Stored(TurnRows(p)[i]).role # "system"
            /\ SystemRows(ThreadRows(p)) = {1}
            /\ ThreadRows(p)[1] = turn[p].before[1]
            /\ turn[p].pc = "classify" =>
                  turn[p].lm.messages
                      = Append(MapContent(SortByTimestamp(turn[p].before)),
                               ContentMessage("user", <<TextPart(turn[p].req.content)>>))
            /\ turn[p].result.status = 404 =>
                  /\ Truthy(turn[p].req.load_annotation_id)
                  /\ turn[p].annotation = <<>>
                  /\ TurnRows(p) = <<>>
                  /\ turn[p].calls = <<>>
            /\ turn[p].annotation # <<>> => turn[p].result.status # 404

C38_Witness ==
    \E p \in Procs :
        /\ FillsOld(p)
        /\ turn[p].annotation # <<>>
        /\ Answered(p)
        /\ Stored(turn[p].before[1])
              = ContentMessage("system", <<TextPart(SYSTEM_PROMPT)>>)

\* Every stored structure message has its commentary as the next row of
\* the table, on the same thread.
Paired ==
    \A i \in StructureRows :
        /\ i < Len(store)
        /\ store[i + 1].thread_id = store[i].thread_id
        /\ Stored(store[i + 1]).role = "assistant"
        /\ ~IsStructureMessage(Stored(store[i + 1]))

\* A step that adds an assistant message adds all the messages one turn
\* returned, and that turn has no model call open.
AddedAtOnce ==
    (\E i \in 1..Len(AddedRows) : Stored(AddedRows[i]).role = "assistant") =>
        \E p \in Procs :
            /\ turn[p].pc = "persist"
            /\ turn[p].inflight = {}
            /\ MapContent(AddedRows) = turn[p].new_messages
            /\ turn[p].selection = "yes" =>
                  /\ Len(AddedRows) = 2
                  /\ IsStructureMessage(Stored(AddedRows[1]))
                  /\ Completed(p, "generator") /\ Completed(p, "commentary")

\* C39: the messages a turn returned are stored in one step, after every
\* model call of the turn has returned: of a yes turn the table holds the
\* structure message and the commentary, or neither, and in no state a
\* structure message without its commentary.
C39_StoredTogether == []Paired /\ [][AddedAtOnce]_vars

C39_Witness ==
    \E p \in Procs :
        /\ turn[p].pc = "respond"
        /\ turn[p].selection = "yes"
        /\ Len(turn[p].response) = 2
        /\ StructureRows # {}

(***************************************************************************)
(* Properties of the thread listing.                                       *)
(***************************************************************************)
\* The threads on which the table holds a row of the user.
ThreadsOf(rows, user_id) ==
    {th \in Threads : \E i \in 1..Len(rows) :
        rows[i].thread_id = th /\ rows[i].user_id = user_id}

\* A request for the threads of a user is answered with every thread that
\* holds a row of the user, once each, and with no other; the thread of a
\* turn whose user message is stored is among them.
ThreadsListed ==
    \A p \in Procs :
        turn[p].pc = "idle" /\ turn'[p].flow = "threads" =>
            LET answer == turn'[p].result
                user_id == turn'[p].req.user_id
            IN  /\ answer.status = 200
                /\ {answer.body[i] : i \in DOMAIN answer.body} = ThreadsOf(store, user_id)
                /\ Len(answer.body) = Cardinality(ThreadsOf(store, user_id))
                /\ \A q \in Procs :
                      /\ turn[q].flow = "build"
                      /\ turn[q].req.user_id = user_id
                      /\ turn[q].pc \notin {"idle", "history", "seed", "user"}
                      => \E i \in DOMAIN answer.body : answer.body[i] = ThreadOf(q)

\* C31: the listing of a user's threads holds each thread on which the user
\* has a stored message exactly once, however many messages that is, and no
\* thread on which the user has none; after a chat turn of the user on a
\* thread the thread is in the user's listing.
C31_ThreadsOnce == [][ThreadsListed]_vars

C31_Witness ==
    \E p \in Procs :
        /\ turn[p].flow = "threads"
        /\ turn[p].req.user_id = "u1"
        /\ turn[p].result.body = <<"t2", "t1">>
        /\ ThreadsOf(store, "u2") = {}
        /\ Len(SelectWhere(store, "t1")) > 2

(***************************************************************************)
(* Properties of the requests for users and annotations.                   *)
(***************************************************************************)
\* Worker p takes up a request of the kind in this step.
Serves(p, flow) == turn[p].pc = "idle" /\ turn'[p].flow = flow

\* What the request worker p has served named, and its answer.
Named(p) == turn[p].record[1]

\* No two rows of the User table have the same id.
OneRowPerId == \A i, k \in 1..Len(users) : users[i].id = users[k].id => i = k

\* A create of an id that is taken is answered 409 and changes no table; a
\* create of a fresh id is answered 201 with the id and the email given,
\* and adds that one row.
UserCreated ==
    \A p \in Procs :
        Serves(p, "create_user") =>
            LET user_data == turn'[p].record[1]
                answer == turn'[p].result
            IN  IF GetUser(users, user_data.id) # <<>>
                THEN /\ answer.status = 409
                     /\ UNCHANGED <<users, store, annotations>>
                ELSE /\ answer.status = 201
                     /\ answer.body = User(user_data.id, user_data.email)
                     /\ users' = Append(users, answer.body)
                     /\ UNCHANGED <<store, annotations>>

\* A get of a user is answered with the row of the id as it was created,
\* and 404 when there is none.
UserRead ==
    \A p \in Procs :
        Serves(p, "read_user") =>
            LET answer == turn'[p].result
                user == GetUser(users, turn'[p].record[1])
            IN  /\ UNCHANGED <<users, store, annotations>>
                /\ IF user = <<>> THEN answer.status = 404
                   ELSE answer.status = 200 /\ answer.body = user[1]

\* C32: creating a user under an id that exists fails with a conflict and
\* changes nothing: the email of the existing user stays and no second row
\* is added; creating a user under a fresh id succeeds, and a get of the
\* id then returns the id and the email given.
C32_DuplicateUserConflict == []OneRowPerId /\ [][UserCreated /\ UserRead]_vars

C32_Witness ==
    \E p \in Procs :
        /\ turn[p].flow = "create_user"
        /\ turn[p].result.status = 409
        /\ Named(p) = User("u1", "b@example.com")
        /\ users = <<User("u1", "a@example.com")>>

\* C33: a PUT for an annotation that exists succeeds: it is answered 200
\* with the annotation under the same id and with the name, description
\* and structure given, and the table holds the annotation so, for every
\* get that follows.
C33_AnnotationUpdated ==
    \A p \in Procs :
        /\ turn[p].flow = "update_annotation"
        /\ GetAnnotation(annotations, Named(p).id) # <<>>
        => /\ turn[p].result.status = 200
           /\ turn[p].result.body.id = Named(p).id
           /\ turn[p].result.body.name = Named(p).name
           /\ turn[p].result.body.description = Named(p).description
           /\ turn[p].result.body.structure = Named(p).structure
           /\ GetAnnotation(annotations, Named(p).id) = <<turn[p].result.body>>

\* A delete of an annotation that exists is answered 204 and takes its row,
\* and no other, out of the table; a delete of an id without a row is
\* answered 404 and changes no table.
AnnotationDeleted ==
    \A p \in Procs :
        Serves(p, "delete_annotation") =>
            LET annotation_id == turn'[p].record[1]
                answer == turn'[p].result
            IN  IF GetAnnotation(annotations, annotation_id) = <<>>
                THEN /\ answer.status = 404
                     /\ UNCHANGED <<users, store, annotations>>
                ELSE /\ answer.status = 204
                     /\ annotations'
                           = SelectSeq(annotations, LAMBDA a : a.id # annotation_id)
                     /\ UNCHANGED <<users, store>>

\* A get of an annotation is answered 404 when the id has no row, with the
\* row when it has, and changes no table.
AnnotationRead ==
    \A p \in Procs :
        Serves(p, "read_annotation") =>
            LET answer == turn'[p].result
                annotation == GetAnnotation(annotations, turn'[p].record[1])
            IN  /\ UNCHANGED <<users, store, annotations>>
                /\ IF annotation = <<>> THEN answer.status = 404
                   ELSE answer.status = 200 /\ answer.body = annotation[1]

\* An id whose row was deleted gets no row again.
GoneForGood ==
    \A n \in 1..issued :
        GetAnnotation(annotations, n) = <<>> => GetAnnotation(annotations', n) = <<>>

UserDeleted ==
    \A p \in Procs :
        Serves(p, "delete_user") /\ GetUser(users, turn'[p].record[1]) # <<>> =>
            /\ turn'[p].result.status = 204
            /\ GetUser(users', turn'[p].record[1]) = <<>>

\* C35: deleting a user that exists succeeds, also when the user has
\* created annotations and sent chat messages, and every get of the id from
\* then on is answered not-found.
C35_UserDeleted == [][UserDeleted /\ UserRead]_vars

====
